---- MODULE Spec2Model ----
(***************************************************************************)
(* A model of the streaming JSON parser of rust-implementation/src:        *)
(* the scanner and tokenizer of lexer.rs (Lexer), the recursive-descent    *)
(* parser of parser.rs (StreamingJsonParser) and its two entry points,     *)
(* parse_single and the Iterator implementation used in stream mode.       *)
(*                                                                         *)
(* Characters are Unicode scalar values, written as their code points.     *)
(* The input source is a finite sequence of characters; read_line hands    *)
(* it to the scanner one line at a time.  I/O failures of the source are   *)
(* not modelled (an in-memory source never fails).                         *)
(***************************************************************************)
EXTENDS Integers, Sequences, FiniteSets, TLC

VARIABLES
    input,          \* the characters of the input source, fixed at construction
    given,          \* how the input was built: its family and what it contains
    lexer,          \* Lexer: reader, current_line, line_chars, position, ...
    current_token,  \* StreamingJsonParser.current_token
    peeked_token,   \* StreamingJsonParser.peeked_token
    results,        \* the outcomes returned so far, oldest first
    last,           \* the outcome of the latest call
    previous        \* the outcomes a parser dropped earlier returned on this input

vars == <<input, given, lexer, current_token, peeked_token, results, last, previous>>

(***************************************************************************)
(* Bounds of the model.                                                    *)
(***************************************************************************)
MaxDocs == 2
MaxNumLen == 4
MaxStrLen == 3
MaxDepth == 2
MaxMembers == 2

\* Outcomes are recorded for this many calls; later calls still run.
MaxPulls == MaxDocs + 3

(***************************************************************************)
(* Characters named in the source.                                         *)
(***************************************************************************)
LBRACE == 123
RBRACE == 125
LBRACKET == 91
RBRACKET == 93
COMMA == 44
COLON == 58
QUOTE == 34
BACKSLASH == 92
SLASH == 47
MINUS == 45
PLUS == 43
DOT == 46
ZERO == 48
LOWER_B == 98
LOWER_E == 101
UPPER_E == 69
LOWER_F == 102
LOWER_N == 110
LOWER_R == 114
LOWER_T == 116
LOWER_U == 117
BACKSPACE == 8
FORMFEED == 12
NEWLINE == 10
CARRIAGE == 13
TAB == 9
SPACE == 32

\* Option<char>::None
NoChar == -1

\* char::is_whitespace: the Unicode White_Space property
is_whitespace(ch) ==
    \/ ch \in 9..13
    \/ ch \in {32, 133, 160, 5760, 8232, 8233, 8239, 8287, 12288}
    \/ ch \in 8192..8202

\* char::is_ascii_digit
is_ascii_digit(ch) == ch \in 48..57

\* char::is_ascii_hexdigit
is_ascii_hexdigit(ch) == ch \in 48..57 \/ ch \in 65..70 \/ ch \in 97..102

\* char::is_alphabetic: the Unicode Alphabetic property, up to U+00FF
is_alphabetic(ch) ==
    \/ ch \in 65..90
    \/ ch \in 97..122
    \/ ch \in {170, 181, 186}
    \/ ch \in 192..214
    \/ ch \in 216..246
    \/ ch \in 248..255

\* the number of bytes of a character in the UTF-8 text the reader delivers
len_utf8(ch) ==
    IF ch < 128 THEN 1 ELSE IF ch < 2048 THEN 2 ELSE IF ch < 65536 THEN 3 ELSE 4

RECURSIVE byte_len(_)
byte_len(s) == IF s = <<>> THEN 0 ELSE len_utf8(Head(s)) + byte_len(Tail(s))

(***************************************************************************)
(* f64.  A number is kept as the decimal it denotes, m * 10^e with m not   *)
(* divisible by ten (zero is 0 * 10^0, and -0.0 == 0.0 as in f64's         *)
(* PartialEq).  Two short decimals are equal as f64 exactly when these     *)
(* normal forms are equal; rounding and overflow are beyond the lengths    *)
(* modelled.                                                               *)
(***************************************************************************)
RECURSIVE f64(_, _)
f64(m, e) ==
    IF m = 0 THEN [m |-> 0, e |-> 0]
    ELSE IF m % 10 = 0 THEN f64(m \div 10, e + 1)
    ELSE [m |-> m, e |-> e]

RECURSIVE digits_value(_, _)
digits_value(s, acc) ==
    IF s = <<>> THEN acc ELSE digits_value(Tail(s), acc * 10 + (Head(s) - ZERO))

\* the first index of s holding a character of set cs, or 0
RECURSIVE find_char(_, _, _)
find_char(s, cs, i) ==
    IF i > Len(s) THEN 0 ELSE IF s[i] \in cs THEN i ELSE find_char(s, cs, i + 1)

\* Evaluates e once and hands its value to F.
Bind(e, F(_)) == CHOOSE r \in {F(x) : x \in {e}} : TRUE

\* the decimal of a mantissa text (integer and fraction digits, at most one
\* '.') scaled by 10^exp10
mantissa_f64(neg, mant, exp10) ==
    Bind(find_char(mant, {DOT}, 1), LAMBDA dPos :
        Bind(IF dPos = 0 THEN mant
             ELSE SubSeq(mant, 1, dPos - 1) \o SubSeq(mant, dPos + 1, Len(mant)),
             LAMBDA digits :
        Bind(digits_value(digits, 0), LAMBDA mval :
            f64(IF neg THEN 0 - mval ELSE mval,
                exp10 - (IF dPos = 0 THEN 0 ELSE Len(mant) - dPos)))))

\* the value of an exponent text: an optional sign and digits
exponent_value(expo) ==
    Bind(expo # <<>> /\ expo[1] \in {PLUS, MINUS}, LAMBDA signed :
        Bind(digits_value(IF signed THEN Tail(expo) ELSE expo, 0), LAMBDA v :
            IF signed /\ expo[1] = MINUS THEN 0 - v ELSE v))

\* str::parse::<f64> on a text of the shape read_number accumulates
parse_f64(number_str) ==
    Bind(number_str # <<>> /\ number_str[1] = MINUS, LAMBDA neg :
        Bind(IF neg THEN Tail(number_str) ELSE number_str, LAMBDA body :
        Bind(find_char(body, {LOWER_E, UPPER_E}, 1), LAMBDA ePos :
            mantissa_f64(neg,
                         IF ePos = 0 THEN body ELSE SubSeq(body, 1, ePos - 1),
                         exponent_value(IF ePos = 0 THEN <<>>
                                        ELSE SubSeq(body, ePos + 1, Len(body)))))))

(***************************************************************************)
(* Tokens and errors (types.rs).                                           *)
(***************************************************************************)
Token(token_type, position) ==
    [token_type |-> token_type, s |-> <<>>, n |-> [m |-> 0, e |-> 0], b |-> FALSE,
     position |-> position]

StringToken(s, position) == [Token("String", position) EXCEPT !.s = s]

NumberToken(n, position) == [Token("Number", position) EXCEPT !.n = n]

BooleanToken(b, position) == [Token("Boolean", position) EXCEPT !.b = b]

\* ParseError; found is the token type of the Debug text of `found`
ParseError(kind, position) ==
    [kind |-> kind, position |-> position, char |-> NoChar,
     expected |-> "", found |-> ""]

InvalidCharacter(ch, position) ==
    [ParseError("InvalidCharacter", position) EXCEPT !.char = ch]

UnexpectedToken(expected, found, position) ==
    [ParseError("UnexpectedToken", position) EXCEPT
        !.expected = expected, !.found = found]

Ok(v) == [ok |-> TRUE, v |-> v]

Err(e) == [ok |-> FALSE, err |-> e]

(***************************************************************************)
(* Scanner (lexer.rs, Lexer).                                              *)
(*                                                                         *)
(* reader is the number of characters the BufReader has delivered,         *)
(* filled the number of characters the BufReader has taken from the        *)
(* source into its buffer and reads the number of read_line calls made.    *)
(* line_chars is the borrowed cursor over current_line: the index of the   *)
(* next character and the index where the borrowed text ends.  The        *)
(* borrow is taken with an unsafe transmute and outlives the rewriting of  *)
(* current_line, but load_next_line runs only once the cursor is           *)
(* exhausted (current_char and advance call it after peek or next gave     *)
(* None), and an exhausted cursor reads no memory: the stale borrow is     *)
(* never read, here as in the code.                                        *)
(***************************************************************************)
new_lexer ==
    [reader |-> 0,
     current_line |-> <<>>,
     line_chars |-> [next |-> 1, end |-> 0],
     position |-> 0,
     line_position |-> 0,
     finished |-> FALSE,
     filled |-> 0,
     reads |-> 0]

\* the capacity in bytes of the buffer of BufReader::new
DEFAULT_BUF_SIZE == 8192

\* one read of the source into the empty buffer of the BufReader: a Cursor
\* or a File fills the room there is (a character is counted once it is
\* whole in the buffer); from is the number of characters taken so far
RECURSIVE fill_buf(_, _)
fill_buf(from, room) ==
    IF from >= Len(input) THEN from
    ELSE IF len_utf8(input[from + 1]) > room THEN from
    ELSE fill_buf(from + 1, room - len_utf8(input[from + 1]))

\* BufRead::read_until: the buffer is refilled until it holds the end of the
\* line (to) or the source is at its end
RECURSIVE read_until(_, _)
read_until(from, to) ==
    IF from >= to \/ from >= Len(input) THEN from
    ELSE read_until(fill_buf(from, DEFAULT_BUF_SIZE), to)

\* BufRead::read_line: the text up to and including the next newline
RECURSIVE read_line(_, _)
read_line(src, from) ==
    IF from >= Len(src) THEN <<>>
    ELSE IF src[from + 1] = NEWLINE THEN <<NEWLINE>>
    ELSE <<src[from + 1]>> \o read_line(src, from + 1)

\* load_next_line without the early return once finished is set
load_next_line_unguarded(lx) ==
    Bind(read_line(input, lx.reader), LAMBDA line :
        IF byte_len(line) = 0
        THEN [r |-> FALSE,
              lx |-> [lx EXCEPT !.current_line = <<>>, !.finished = TRUE,
                                !.reads = @ + 1]]
        ELSE [r |-> TRUE,
              lx |-> [lx EXCEPT !.reader = @ + Len(line),
                                !.filled = read_until(@, lx.reader + Len(line)),
                                !.current_line = line,
                                !.line_chars = [next |-> 1, end |-> Len(line)],
                                !.line_position = 0,
                                !.reads = @ + 1]])

\* load_next_line keeping the line without its newline, as lines() would
load_next_line_stripped(lx) ==
    IF lx.finished THEN [r |-> FALSE, lx |-> lx]
    ELSE Bind(read_line(input, lx.reader), LAMBDA line :
        IF byte_len(line) = 0
        THEN [r |-> FALSE,
              lx |-> [lx EXCEPT !.current_line = <<>>, !.finished = TRUE,
                                !.reads = @ + 1]]
        ELSE [r |-> TRUE,
              lx |-> [lx EXCEPT !.reader = @ + Len(line),
                                !.filled = read_until(@, lx.reader + Len(line)),
                                !.current_line = line,
                                !.line_chars =
                                    [next |-> 1,
                                     end |-> IF line[Len(line)] = NEWLINE
                                             THEN Len(line) - 1 ELSE Len(line)],
                                !.line_position = 0,
                                !.reads = @ + 1]])

load_next_line(lx) ==
    IF lx.finished THEN [r |-> FALSE, lx |-> lx]
    ELSE Bind(read_line(input, lx.reader), LAMBDA line :
        Bind(byte_len(line), LAMBDA result :
            IF result = 0
            THEN [r |-> FALSE,
                  lx |-> [lx EXCEPT !.current_line = <<>>, !.finished = TRUE,
                                    !.reads = @ + 1]]
            ELSE [r |-> TRUE,
                  lx |-> [lx EXCEPT !.reader = @ + Len(line),
                                    !.filled = read_until(@, lx.reader + Len(line)),
                                    !.current_line = line,
                                    !.line_chars = [next |-> 1, end |-> Len(line)],
                                    !.line_position = 0,
                                    !.reads = @ + 1]]))

\* peek taking the cursor for exhausted one character before the end
line_chars_peek_short(lx) ==
    IF lx.line_chars.next < lx.line_chars.end
    THEN lx.current_line[lx.line_chars.next]
    ELSE NoChar

\* Peekable<Chars>::peek on the borrowed cursor
line_chars_peek(lx) ==
    IF lx.line_chars.next <= lx.line_chars.end
    THEN lx.current_line[lx.line_chars.next]
    ELSE NoChar

RECURSIVE current_char(_)
current_char(lx) ==
    IF line_chars_peek(lx) # NoChar THEN [ch |-> line_chars_peek(lx), lx |-> lx]
    ELSE Bind(load_next_line(lx), LAMBDA l :
        IF l.r THEN current_char(l.lx) ELSE [ch |-> NoChar, lx |-> l.lx])

\* advance, counting the bytes of the character instead of the character
RECURSIVE advance_bytes(_)
advance_bytes(lx) ==
    IF line_chars_peek(lx) # NoChar
    THEN [ch |-> line_chars_peek(lx),
          lx |-> [lx EXCEPT !.line_chars.next = @ + 1,
                            !.position = @ + len_utf8(line_chars_peek(lx)),
                            !.line_position = @ + 1]]
    ELSE Bind(load_next_line(lx), LAMBDA l :
        IF l.r THEN advance_bytes(l.lx) ELSE [ch |-> NoChar, lx |-> l.lx])

RECURSIVE advance(_)
advance(lx) ==
    IF line_chars_peek(lx) # NoChar
    THEN [ch |-> line_chars_peek(lx),
          lx |-> [lx EXCEPT !.line_chars.next = @ + 1,
                            !.position = @ + 1,
                            !.line_position = @ + 1]]
    ELSE Bind(load_next_line(lx), LAMBDA l :
        IF l.r THEN advance(l.lx) ELSE [ch |-> NoChar, lx |-> l.lx])

RECURSIVE skip_whitespace(_)
skip_whitespace(lx) ==
    Bind(current_char(lx), LAMBDA c :
        IF c.ch # NoChar /\ is_whitespace(c.ch)
        THEN Bind(advance(c.lx), LAMBDA a : skip_whitespace(a.lx))
        ELSE c.lx)

(***************************************************************************)
(* Tokenizer (lexer.rs).  Each operation returns its result r and the      *)
(* scanner state lx it leaves.                                             *)
(***************************************************************************)
\* the character an escape letter stands for (read_string's match arms)
escape_char(ch) ==
    CASE ch = QUOTE -> QUOTE
      [] ch = BACKSLASH -> BACKSLASH
      [] ch = SLASH -> SLASH
      [] ch = LOWER_B -> BACKSPACE
      [] ch = LOWER_F -> FORMFEED
      [] ch = LOWER_N -> NEWLINE
      [] ch = LOWER_R -> CARRIAGE
      [] ch = LOWER_T -> TAB

simple_escapes ==
    {QUOTE, BACKSLASH, SLASH, LOWER_B, LOWER_F, LOWER_N, LOWER_R, LOWER_T}

\* char::to_digit(16) of a hexadecimal digit
hex_digit_value(ch) ==
    IF ch \in 48..57 THEN ch - 48
    ELSE IF ch \in 65..70 THEN ch - 55
    ELSE ch - 87

\* u32::from_str_radix(hex_digits, 16)
RECURSIVE from_str_radix(_, _)
from_str_radix(hex_digits, acc) ==
    IF hex_digits = <<>> THEN acc
    ELSE from_str_radix(Tail(hex_digits), acc * 16 + hex_digit_value(Head(hex_digits)))

\* char::from_u32: Some exactly for the Unicode scalar values
char_from_u32(code_point) ==
    IF code_point \in 55296..57343 \/ code_point > 1114111 THEN NoChar
    ELSE code_point

\* the `for _ in 0..4` loop of the 'u' arm
RECURSIVE read_hex_digits(_, _, _)
read_hex_digits(lx, hex_digits, left) ==
    IF left = 0 THEN [r |-> Ok(hex_digits), lx |-> lx]
    ELSE Bind(advance(lx), LAMBDA a :
        IF a.ch # NoChar /\ is_ascii_hexdigit(a.ch)
        THEN read_hex_digits(a.lx, Append(hex_digits, a.ch), left - 1)
        ELSE [r |-> Err(ParseError("InvalidEscape", a.lx.position)), lx |-> a.lx])

\* the `while let Some(ch) = self.advance()?` loop of read_string
RECURSIVE read_string_loop(_, _, _, _)
read_string_loop(lx, result, escaped, start_pos) ==
    Bind(advance(lx), LAMBDA a :
        IF a.ch = NoChar
        THEN [r |-> Err(ParseError("UnterminatedString", start_pos)), lx |-> a.lx]
        ELSE IF escaped
        THEN IF a.ch \in simple_escapes
             THEN read_string_loop(a.lx, Append(result, escape_char(a.ch)), FALSE,
                                   start_pos)
             ELSE IF a.ch = LOWER_U
             THEN Bind(read_hex_digits(a.lx, <<>>, 4), LAMBDA h :
                 IF ~h.r.ok THEN h
                 ELSE Bind(char_from_u32(from_str_radix(h.r.v, 0)),
                           LAMBDA unicode_char :
                     IF unicode_char # NoChar
                     THEN read_string_loop(h.lx, Append(result, unicode_char),
                                           FALSE, start_pos)
                     ELSE [r |-> Err(ParseError("InvalidEscape", h.lx.position)),
                           lx |-> h.lx]))
             ELSE [r |-> Err(ParseError("InvalidEscape", a.lx.position)), lx |-> a.lx]
        ELSE IF a.ch = BACKSLASH
        THEN read_string_loop(a.lx, result, TRUE, start_pos)
        ELSE IF a.ch = QUOTE
        THEN [r |-> Ok(result), lx |-> a.lx]
        ELSE read_string_loop(a.lx, Append(result, a.ch), FALSE, start_pos))

\* read_string reporting an unterminated string where its body starts
read_string_body_pos(lx) ==
    Bind(advance(lx), LAMBDA a :
        IF a.ch # QUOTE
        THEN [r |-> Err(InvalidCharacter(QUOTE, lx.position)), lx |-> a.lx]
        ELSE read_string_loop(a.lx, <<>>, FALSE, a.lx.position))

read_string(lx) ==
    Bind(advance(lx), LAMBDA a :
        IF a.ch # QUOTE
        THEN [r |-> Err(InvalidCharacter(QUOTE, lx.position)), lx |-> a.lx]
        ELSE read_string_loop(a.lx, <<>>, FALSE, lx.position))

\* a `while let Some(digit) = self.current_char()?` loop of read_number:
\* r is the text with the digits appended, n the number of digits read
RECURSIVE read_digits(_, _, _)
read_digits(lx, number_str, n) ==
    Bind(current_char(lx), LAMBDA c :
        IF c.ch # NoChar /\ is_ascii_digit(c.ch)
        THEN Bind(advance(c.lx), LAMBDA a :
                 read_digits(a.lx, Append(number_str, c.ch), n + 1))
        ELSE [r |-> number_str, n |-> n, lx |-> c.lx])

\* The phases of read_number hand on ok (no InvalidNumber so far), the text
\* number_str accumulated and the scanner state.

\* the optional '-' (lines 148-151)
read_sign(lx) ==
    Bind(current_char(lx), LAMBDA m :
        IF m.ch = MINUS
        THEN [ok |-> TRUE, r |-> <<MINUS>>, lx |-> advance(m.lx).lx]
        ELSE [ok |-> TRUE, r |-> <<>>, lx |-> m.lx])

\* the integer part: a lone '0' or a run of digits (lines 153-170)
read_integer(lx, number_str) ==
    Bind(current_char(lx), LAMBDA c :
        IF c.ch = ZERO
        THEN [ok |-> TRUE, r |-> Append(number_str, ZERO), lx |-> advance(c.lx).lx]
        ELSE IF c.ch # NoChar /\ is_ascii_digit(c.ch)
        THEN Bind(read_digits(c.lx, number_str, 0), LAMBDA d :
                 [ok |-> TRUE, r |-> d.r, lx |-> d.lx])
        ELSE [ok |-> FALSE, r |-> number_str, lx |-> c.lx])

\* the fraction, accepting a '.' with no digit after it
read_fraction_unchecked(lx, number_str) ==
    Bind(current_char(lx), LAMBDA c :
        IF c.ch = DOT
        THEN Bind(advance(c.lx), LAMBDA a :
             Bind(read_digits(a.lx, Append(number_str, DOT), 0), LAMBDA d :
                 [ok |-> TRUE, r |-> d.r, lx |-> d.lx]))
        ELSE [ok |-> TRUE, r |-> number_str, lx |-> c.lx])

\* the optional fraction: '.' and at least one digit (lines 173-191)
read_fraction(lx, number_str) ==
    Bind(current_char(lx), LAMBDA c :
        IF c.ch = DOT
        THEN Bind(advance(c.lx), LAMBDA a :
             Bind(read_digits(a.lx, Append(number_str, DOT), 0), LAMBDA d :
                 [ok |-> d.n > 0, r |-> d.r, lx |-> d.lx]))
        ELSE [ok |-> TRUE, r |-> number_str, lx |-> c.lx])

\* the sign of the exponent (lines 199-204)
read_exponent_sign(lx, number_str) ==
    Bind(current_char(lx), LAMBDA sign :
        IF sign.ch \in {PLUS, MINUS}
        THEN [ok |-> TRUE, r |-> Append(number_str, sign.ch), lx |-> advance(sign.lx).lx]
        ELSE [ok |-> TRUE, r |-> number_str, lx |-> sign.lx])

\* the optional exponent: 'e' or 'E', an optional sign and at least one digit
\* (lines 193-218)
read_exponent(lx, number_str) ==
    Bind(current_char(lx), LAMBDA c :
        IF c.ch \in {LOWER_E, UPPER_E}
        THEN Bind(advance(c.lx), LAMBDA a :
             Bind(read_exponent_sign(a.lx, Append(number_str, c.ch)), LAMBDA s :
             Bind(read_digits(s.lx, s.r, 0), LAMBDA d :
                 [ok |-> d.n > 0, r |-> d.r, lx |-> d.lx])))
        ELSE [ok |-> TRUE, r |-> number_str, lx |-> c.lx])

\* a phase of read_number run only while no phase before it has failed
after(p, phase(_, _)) == IF p.ok THEN phase(p.lx, p.r) ELSE p

read_number(lx) ==
    Bind(read_sign(lx), LAMBDA s :
    Bind(read_integer(s.lx, s.r), LAMBDA i :
    Bind(after(i, read_fraction), LAMBDA f :
    Bind(after(f, read_exponent), LAMBDA x :
        IF x.ok
        THEN [r |-> Ok(parse_f64(x.r)), lx |-> x.lx]
        ELSE [r |-> Err(ParseError("InvalidNumber", lx.position)), lx |-> x.lx]))))

RECURSIVE read_literal_loop(_, _)
read_literal_loop(lx, literal) ==
    Bind(current_char(lx), LAMBDA c :
        IF c.ch # NoChar /\ is_alphabetic(c.ch)
        THEN Bind(advance(c.lx), LAMBDA a :
                 read_literal_loop(a.lx, Append(literal, c.ch)))
        ELSE [r |-> Ok(literal), lx |-> c.lx])

read_literal(lx) == read_literal_loop(lx, <<>>)

\* the texts "true", "false" and "null"
TRUE_STR == <<116, 114, 117, 101>>
FALSE_STR == <<102, 97, 108, 115, 101>>
NULL_STR == <<110, 117, 108, 108>>

punctuation(ch) ==
    CASE ch = LBRACE -> "LeftBrace"
      [] ch = RBRACE -> "RightBrace"
      [] ch = LBRACKET -> "LeftBracket"
      [] ch = RBRACKET -> "RightBracket"
      [] ch = COMMA -> "Comma"
      [] ch = COLON -> "Colon"

\* the `match ch` of Lexer::next, on the scanner state c.lx left by the
\* look at character c.ch at position current_pos
lexer_match(c, current_pos) ==
    IF c.ch = NoChar
    THEN [r |-> Ok(Token("Eof", current_pos)), lx |-> c.lx]
    ELSE IF c.ch \in {LBRACE, RBRACE, LBRACKET, RBRACKET, COMMA, COLON}
    THEN Bind(advance(c.lx), LAMBDA a :
             [r |-> Ok(Token(punctuation(c.ch), current_pos)), lx |-> a.lx])
    ELSE IF c.ch = QUOTE
    THEN Bind(read_string(c.lx), LAMBDA s :
             IF s.r.ok
             THEN [r |-> Ok(StringToken(s.r.v, current_pos)), lx |-> s.lx]
             ELSE s)
    ELSE IF c.ch = MINUS \/ c.ch \in 48..57
    THEN Bind(read_number(c.lx), LAMBDA n :
             IF n.r.ok
             THEN [r |-> Ok(NumberToken(n.r.v, current_pos)), lx |-> n.lx]
             ELSE n)
    ELSE IF c.ch \in 97..122 \/ c.ch \in 65..90
    THEN Bind(read_literal(c.lx), LAMBDA l :
             IF l.r.v = TRUE_STR
             THEN [r |-> Ok(BooleanToken(TRUE, current_pos)), lx |-> l.lx]
             ELSE IF l.r.v = FALSE_STR
             THEN [r |-> Ok(BooleanToken(FALSE, current_pos)), lx |-> l.lx]
             ELSE IF l.r.v = NULL_STR
             THEN [r |-> Ok(Token("Null", current_pos)), lx |-> l.lx]
             ELSE [r |-> Err(InvalidCharacter(c.ch, current_pos)), lx |-> l.lx])
    ELSE [r |-> Err(InvalidCharacter(c.ch, current_pos)), lx |-> c.lx]

\* a tokenizer that reports the end of the input as an error
lexer_next_eof_error(lx) ==
    Bind(skip_whitespace(lx), LAMBDA lx1 :
        Bind(current_char(lx1), LAMBDA c :
            IF c.ch = NoChar
            THEN [r |-> Err(ParseError("UnexpectedEof", lx1.position)), lx |-> c.lx]
            ELSE lexer_match(c, lx1.position)))

\* a tokenizer that takes the position of a lexeme before the whitespace
\* in front of it
lexer_next_before_whitespace(lx) ==
    Bind(skip_whitespace(lx), LAMBDA lx1 :
        Bind(current_char(lx1), LAMBDA c : lexer_match(c, lx.position)))

\* Iterator for Lexer :: next.  It always returns Some(item).
lexer_next(lx) ==
    Bind(skip_whitespace(lx), LAMBDA lx1 :
        Bind(current_char(lx1), LAMBDA c : lexer_match(c, lx1.position)))

(***************************************************************************)
(* Values (types.rs, JsonValue).  An object is a function from its keys    *)
(* to their values (the HashMap), an array a sequence.                     *)
(***************************************************************************)
JsonValue(type) ==
    [type |-> type, s |-> <<>>, n |-> [m |-> 0, e |-> 0], b |-> FALSE,
     obj |-> <<>>, arr |-> <<>>]

JsonString(s) == [JsonValue("String") EXCEPT !.s = s]

JsonNumber(n) == [JsonValue("Number") EXCEPT !.n = n]

JsonBoolean(b) == [JsonValue("Boolean") EXCEPT !.b = b]

JsonNull == JsonValue("Null")

JsonObject(obj) == [JsonValue("Object") EXCEPT !.obj = obj]

JsonArray(arr) == [JsonValue("Array") EXCEPT !.arr = arr]

\* an insert that keeps the value a key already has
insert_keep_first(object, key, value) ==
    [k \in (DOMAIN object) \cup {key} |->
        IF k \in DOMAIN object THEN object[k] ELSE value]

\* HashMap::insert
insert(object, key, value) ==
    [k \in (DOMAIN object) \cup {key} |-> IF k = key THEN value ELSE object[k]]

(***************************************************************************)
(* Parser (parser.rs, StreamingJsonParser).  A parser state ps holds the   *)
(* lexer, current_token and peeked_token; each operation returns its       *)
(* result r and the parser state ps it leaves.                             *)
(***************************************************************************)
None == [some |-> FALSE]

Some(v) == [some |-> TRUE, v |-> v]

new_parser == [lexer |-> new_lexer, current_token |-> None, peeked_token |-> None]

peek_token(ps) ==
    IF ~ps.peeked_token.some
    THEN Bind(lexer_next(ps.lexer), LAMBDA n :
             [r |-> n.r,
              ps |-> [ps EXCEPT !.lexer = n.lx, !.peeked_token = Some(n.r)]])
    ELSE [r |-> ps.peeked_token.v, ps |-> ps]

\* the end of advance_token: token is the result taken or lexed, ps the state
\* that leaves
set_current(token, ps) ==
    IF token.ok
    THEN [r |-> token, ps |-> [ps EXCEPT !.current_token = Some(token.v)]]
    ELSE [r |-> token, ps |-> ps]

advance_token(ps) ==
    IF ps.peeked_token.some
    THEN set_current(ps.peeked_token.v, [ps EXCEPT !.peeked_token = None])
    ELSE Bind(lexer_next(ps.lexer), LAMBDA n :
             set_current(n.r, [ps EXCEPT !.lexer = n.lx]))

\* expect_token reporting where the scanner stands, after the found lexeme
expect_token_end_position(ps, expected) ==
    Bind(advance_token(ps), LAMBDA a :
        IF ~a.r.ok THEN a
        ELSE IF a.r.v.token_type # expected
        THEN [r |-> Err(UnexpectedToken(expected, a.r.v.token_type, a.ps.lexer.position)),
              ps |-> a.ps]
        ELSE a)

\* expect_token without the comparison of the discriminants
expect_token_unchecked(ps, expected) == advance_token(ps)

\* expected is the token type whose discriminant is compared
expect_token(ps, expected) ==
    Bind(advance_token(ps), LAMBDA a :
        IF ~a.r.ok THEN a
        ELSE IF a.r.v.token_type # expected
        THEN [r |-> Err(UnexpectedToken(expected, a.r.v.token_type, a.r.v.position)),
              ps |-> a.ps]
        ELSE a)

\* advance_token where only the state it leaves is used
skip_token(ps) == Bind(advance_token(ps), LAMBDA a : a.ps)

RECURSIVE parse_value(_), parse_object(_), parse_array(_)
RECURSIVE parse_object_loop(_, _), parse_array_loop(_, _)
RECURSIVE parse_object_separator(_, _), parse_array_separator(_, _)
RECURSIVE parse_array_separator_lenient(_, _)

\* the `match separator.token_type` of parse_object (lines 123-148), after a
\* member: separator is the peeked token and the state that leaves
parse_object_separator(separator, object) ==
    IF ~separator.r.ok THEN separator
    ELSE IF separator.r.v.token_type = "RightBrace"
    THEN [r |-> Ok(JsonObject(object)), ps |-> skip_token(separator.ps)]
    ELSE IF separator.r.v.token_type = "Comma"
    THEN Bind(skip_token(separator.ps), LAMBDA ps1 :
         Bind(peek_token(ps1), LAMBDA next_token :
             IF next_token.r.ok /\ next_token.r.v.token_type = "RightBrace"
             THEN [r |-> Err(ParseError("TrailingComma", next_token.r.v.position)),
                   ps |-> next_token.ps]
             ELSE parse_object_loop(next_token.ps, object)))
    ELSE [r |-> Err(UnexpectedToken("',' or '}'", separator.r.v.token_type,
                                    separator.r.v.position)),
          ps |-> separator.ps]

\* the `loop` of parse_object (lines 112-149)
parse_object_loop(ps, object) ==
    Bind(expect_token(ps, "String"), LAMBDA key_token :
        IF ~key_token.r.ok THEN key_token
        ELSE Bind(expect_token(key_token.ps, "Colon"), LAMBDA colon :
            IF ~colon.r.ok THEN colon
            ELSE Bind(parse_value(colon.ps), LAMBDA value :
                IF ~value.r.ok THEN value
                ELSE Bind(peek_token(value.ps), LAMBDA separator :
                    Bind(insert(object, key_token.r.v.s, value.r.v), LAMBDA object1 :
                        parse_object_separator(separator, object1))))))

parse_object(ps) ==
    Bind(expect_token(ps, "LeftBrace"), LAMBDA open :
        IF ~open.r.ok THEN open
        ELSE Bind(peek_token(open.ps), LAMBDA token :
            IF token.r.ok /\ token.r.v.token_type = "RightBrace"
            THEN [r |-> Ok(JsonObject(<<>>)), ps |-> skip_token(token.ps)]
            ELSE parse_object_loop(token.ps, <<>>)))

\* parse_array's separator match without the check for a trailing comma
parse_array_separator_lenient(separator, array) ==
    IF ~separator.r.ok THEN separator
    ELSE IF separator.r.v.token_type = "RightBracket"
    THEN [r |-> Ok(JsonArray(array)), ps |-> skip_token(separator.ps)]
    ELSE IF separator.r.v.token_type = "Comma"
    THEN Bind(skip_token(separator.ps), LAMBDA ps1 : parse_array_loop(ps1, array))
    ELSE [r |-> Err(UnexpectedToken("',' or ']'", separator.r.v.token_type,
                                    separator.r.v.position)),
          ps |-> separator.ps]

\* the `match separator.token_type` of parse_array (lines 169-194), after an
\* element: separator is the peeked token and the state that leaves
parse_array_separator(separator, array) ==
    IF ~separator.r.ok THEN separator
    ELSE IF separator.r.v.token_type = "RightBracket"
    THEN [r |-> Ok(JsonArray(array)), ps |-> skip_token(separator.ps)]
    ELSE IF separator.r.v.token_type = "Comma"
    THEN Bind(skip_token(separator.ps), LAMBDA ps1 :
         Bind(peek_token(ps1), LAMBDA next_token :
             IF next_token.r.ok /\ next_token.r.v.token_type = "RightBracket"
             THEN [r |-> Err(ParseError("TrailingComma", next_token.r.v.position)),
                   ps |-> next_token.ps]
             ELSE parse_array_loop(next_token.ps, array)))
    ELSE [r |-> Err(UnexpectedToken("',' or ']'", separator.r.v.token_type,
                                    separator.r.v.position)),
          ps |-> separator.ps]

\* the `loop` of parse_array (lines 165-195)
parse_array_loop(ps, array) ==
    Bind(parse_value(ps), LAMBDA value :
        IF ~value.r.ok THEN value
        ELSE Bind(peek_token(value.ps), LAMBDA separator :
            Bind(Append(array, value.r.v), LAMBDA array1 :
                parse_array_separator(separator, array1))))

parse_array(ps) ==
    Bind(expect_token(ps, "LeftBracket"), LAMBDA open :
        IF ~open.r.ok THEN open
        ELSE Bind(peek_token(open.ps), LAMBDA token :
            IF token.r.ok /\ token.r.v.token_type = "RightBracket"
            THEN [r |-> Ok(JsonArray(<<>>)), ps |-> skip_token(token.ps)]
            ELSE parse_array_loop(token.ps, <<>>)))

\* the scalar arms of parse_value: the token is taken and becomes the value
scalar_value(ps) ==
    Bind(advance_token(ps), LAMBDA a :
        [r |-> Ok(CASE a.r.v.token_type = "String" -> JsonString(a.r.v.s)
                    [] a.r.v.token_type = "Number" -> JsonNumber(a.r.v.n)
                    [] a.r.v.token_type = "Boolean" -> JsonBoolean(a.r.v.b)
                    [] a.r.v.token_type = "Null" -> JsonNull),
         ps |-> a.ps])

parse_value(ps) ==
    Bind(peek_token(ps), LAMBDA p :
        IF ~p.r.ok THEN p
        ELSE IF p.r.v.token_type = "LeftBrace" THEN parse_object(p.ps)
        ELSE IF p.r.v.token_type = "LeftBracket" THEN parse_array(p.ps)
        ELSE IF p.r.v.token_type \in {"String", "Number", "Boolean", "Null"}
        THEN scalar_value(p.ps)
        ELSE [r |-> Err(UnexpectedToken("JSON value", p.r.v.token_type,
                                        p.r.v.position)),
              ps |-> p.ps])

\* parse_single without the look at what follows the value
parse_single_unchecked(ps) == parse_value(ps)

parse_single(ps) ==
    Bind(parse_value(ps), LAMBDA value :
        IF ~value.r.ok THEN value
        ELSE Bind(peek_token(value.ps), LAMBDA next_token :
            IF ~next_token.r.ok THEN next_token
            ELSE IF next_token.r.v.token_type # "Eof"
            THEN [r |-> Err(UnexpectedToken("end of input",
                                            next_token.r.v.token_type,
                                            next_token.r.v.position)),
                  ps |-> next_token.ps]
            ELSE [r |-> value.r, ps |-> next_token.ps]))

\* next dropping the lookahead it reports as an error
stream_next_consuming(ps) ==
    Bind(peek_token(ps), LAMBDA p :
        IF p.r.ok /\ p.r.v.token_type = "Eof" THEN [r |-> None, ps |-> p.ps]
        ELSE IF p.r.ok
        THEN Bind(parse_value(p.ps), LAMBDA v :
                 [r |-> Some(v.r),
                  ps |-> IF v.r.ok THEN v.ps ELSE [v.ps EXCEPT !.peeked_token = None]])
        ELSE [r |-> Some(p.r), ps |-> [p.ps EXCEPT !.peeked_token = None]])

\* Iterator for StreamingJsonParser :: next; r is None at the end of the stream
stream_next(ps) ==
    Bind(peek_token(ps), LAMBDA p :
        IF p.r.ok /\ p.r.v.token_type = "Eof" THEN [r |-> None, ps |-> p.ps]
        ELSE IF p.r.ok
        THEN Bind(parse_value(p.ps), LAMBDA v : [r |-> Some(v.r), ps |-> v.ps])
        ELSE [r |-> Some(p.r), ps |-> p.ps])

(***************************************************************************)
(* The state machine.  A parser (or a bare Lexer) is constructed over an   *)
(* input and then called: Lexer::next, StreamingJsonParser::next (stream   *)
(* mode) or parse_single.                                                  *)
(***************************************************************************)
parser_state ==
    [lexer |-> lexer, current_token |-> current_token, peeked_token |-> peeked_token]

NotCalled == [called |-> FALSE]

Called(r) == [called |-> TRUE, r |-> r]

record(r) == IF Len(results) < MaxPulls THEN Append(results, r) ELSE results

\* Lexer::new / StreamingJsonParser::new over the input of case c
Construct(c) ==
    /\ input = c.input
    /\ given = c.given
    /\ lexer = new_parser.lexer
    /\ current_token = new_parser.current_token
    /\ peeked_token = new_parser.peeked_token
    /\ results = <<>>
    /\ last = NotCalled
    /\ previous = <<>>

\* one pull on the Lexer iterator
LexerNext ==
    \E n \in {lexer_next(lexer)} :
        /\ lexer' = n.lx
        /\ last' = Called(n.r)
        /\ results' = record(n.r)
        /\ UNCHANGED <<input, given, current_token, peeked_token, previous>>

\* one turn of `for result in parser` in process_stream: a pull on the
\* StreamingJsonParser iterator; the loop ends at the first None
StreamNext ==
    /\ ~(last.called /\ last.r = None)
    /\ \E n \in {stream_next(parser_state)} :
        /\ lexer' = n.ps.lexer
        /\ current_token' = n.ps.current_token
        /\ peeked_token' = n.ps.peeked_token
        /\ last' = Called(n.r)
        /\ results' = record(n.r)
    /\ UNCHANGED <<input, given, previous>>

\* parse_json_string: parse_single on a fresh parser
ParseSingle ==
    /\ ~last.called
    /\ \E n \in {parse_single(parser_state)} :
        /\ lexer' = n.ps.lexer
        /\ current_token' = n.ps.current_token
        /\ peeked_token' = n.ps.peeked_token
        /\ last' = Called(n.r)
        /\ results' = record(n.r)
    /\ UNCHANGED <<input, given, previous>>

(***************************************************************************)
(* Inputs.  Each case is an input text together with `given`, the record   *)
(* of how the text was put together: its family, the values of the         *)
(* documents written into it and the position of the place of interest.    *)
(***************************************************************************)
Case(text, family, values, pos) ==
    [input |-> text, given |-> [family |-> family, values |-> values, pos |-> pos]]

SeqsUpTo(S, n) == UNION {[1..k -> S] : k \in 0..n}

Quoted(s) == <<QUOTE>> \o s \o <<QUOTE>>

\* sample documents, each with the value it denotes
\*   1   "a"   true   {"a":1}   [null, -0.5]
SampleDocs ==
    { [text |-> <<49>>, value |-> JsonNumber([m |-> 1, e |-> 0])],
      [text |-> Quoted(<<97>>), value |-> JsonString(<<97>>)],
      [text |-> TRUE_STR, value |-> JsonBoolean(TRUE)],
      [text |-> <<LBRACE>> \o Quoted(<<97>>) \o <<COLON, 49, RBRACE>>,
       value |-> JsonObject([k \in {<<97>>} |-> JsonNumber([m |-> 1, e |-> 0])])],
      [text |-> <<LBRACKET>> \o NULL_STR \o <<COMMA, SPACE, MINUS, ZERO, DOT, 53, RBRACKET>>,
       value |-> JsonArray(<<JsonNull, JsonNumber([m |-> -5, e |-> -1])>>)] }

\*   "😀", the escaped surrogate pair of U+1F600
SurrogateDoc ==
    [text |-> Quoted(<<BACKSLASH, LOWER_U, 100, 56, 51, 100,
                       BACKSLASH, LOWER_U, 100, 101, 48, 48>>),
     value |-> JsonString(<<128512>>)]

\*   "é"   {}   []
SingleDocs ==
    SampleDocs \cup
    { [text |-> Quoted(<<233>>), value |-> JsonString(<<233>>)],
      [text |-> <<LBRACE, RBRACE>>, value |-> JsonObject(<<>>)],
      [text |-> <<LBRACKET, RBRACKET>>, value |-> JsonArray(<<>>)] }

\* documents that are not values:  01  [1,]  {"a" 1}  tru  "a  }  1.
MalformedDocs ==
    { <<ZERO, 49>>,
      <<LBRACKET, 49, COMMA, RBRACKET>>,
      <<LBRACE>> \o Quoted(<<97>>) \o <<SPACE, 49, RBRACE>>,
      <<116, 114, 117>>,
      <<QUOTE, 97>>,
      <<RBRACE>>,
      <<49, DOT>> }

Separators == {<<SPACE>>, <<NEWLINE>>, <<TAB>>}

\* n documents of set docs, separated by whitespace
RECURSIVE DocRuns(_, _)
DocRuns(docs, n) ==
    IF n = 0 THEN {[text |-> <<>>, values |-> <<>>]}
    ELSE LET shorter == DocRuns(docs, n - 1)
         IN  {[text |-> r.text \o (IF r.values = <<>> THEN <<>> ELSE sep) \o d.text,
               values |-> Append(r.values, d.value)] :
                 r \in {x \in shorter : Len(x.values) = n - 1}, d \in docs,
                 sep \in (IF n = 1 THEN {<<>>} ELSE Separators)}
             \cup shorter

\* stream inputs made of valid documents only
DocsCases ==
    {Case(lead \o r.text \o trail, "docs", r.values, 0) :
        r \in DocRuns(SampleDocs \cup {SurrogateDoc}, MaxDocs),
        lead \in {<<>>, <<NEWLINE, SPACE>>}, trail \in {<<>>, <<TAB>>}}

\* stream inputs made of valid documents followed by a malformed one
MalformedCases ==
    {Case(r.text \o (IF r.values = <<>> THEN <<>> ELSE sep) \o m \o trail,
          "docs_then_malformed", r.values, 0) :
        r \in DocRuns(SampleDocs, MaxDocs - 1), m \in MalformedDocs,
        sep \in {<<SPACE>>, <<NEWLINE>>}, trail \in {<<>>, <<NEWLINE>>}}

StreamCases == DocsCases \cup MalformedCases

\* the texts of one lexeme each:  } ] , : { [ "a" 1 null
FollowLexemes ==
    { <<RBRACE>>, <<RBRACKET>>, <<COMMA>>, <<COLON>>, <<LBRACE>>, <<LBRACKET>>,
      Quoted(<<97>>), <<49>>, NULL_STR }

\* two texts that written side by side read as one number or one word
Merges(a, b) ==
    /\ a # <<>> /\ b # <<>>
    /\ \/ is_ascii_digit(a[Len(a)]) /\ is_ascii_digit(b[1])
       \/ is_alphabetic(a[Len(a)]) /\ is_alphabetic(b[1])

\* one document, optional whitespace, and optionally one more lexeme;
\* pos is where that lexeme starts, or -1 when there is none
OneDocCases ==
    {Case(lead \o d.text \o gap, "one_doc", <<d.value>>, -1) :
        d \in SingleDocs, lead \in {<<>>, <<SPACE>>},
        gap \in {<<>>, <<SPACE>>, <<NEWLINE>>, <<TAB, NEWLINE>>}}
    \cup
    UNION {UNION {
      {Case(lead \o d.text \o gap \o f, "one_doc", <<d.value>>,
            Len(lead) + Len(d.text) + Len(gap)) :
          lead \in {<<>>, <<SPACE>>},
          f \in {x \in FollowLexemes : gap # <<>> \/ ~Merges(d.text, x)}} :
        gap \in {<<>>, <<SPACE>>, <<NEWLINE>>}} :
      d \in SingleDocs}

BlankCases ==
    {Case(w, "blank", <<>>, -1) : w \in SeqsUpTo({SPACE, NEWLINE, TAB}, 2)}

\* m members, each followed by a comma:  1,1,   or   "a":1,"a":1,
RECURSIVE Members(_, _)
Members(one, m) == IF m = 0 THEN <<>> ELSE one \o <<COMMA>> \o Members(one, m - 1)

\* an array or object whose last comma is followed by its closer; pos is
\* the position of the closer
TrailingCommaBase ==
    UNION {
      {[text |-> <<LBRACKET>> \o Members(<<49>>, m) \o w \o <<RBRACKET>>,
        pos |-> 1 + 2 * m + Len(w)],
       [text |-> <<LBRACE>> \o Members(Quoted(<<97>>) \o <<COLON, 49>>, m) \o w
                 \o <<RBRACE>>,
        pos |-> 1 + 6 * m + Len(w)]} :
      m \in 1..MaxMembers, w \in {<<>>, <<SPACE>>, <<NEWLINE>>} }

\* the places a value can stand in:  [_]   [1,_]   {"a":_}   {"a":1,"b":_
Wrappers ==
    { [pre |-> <<LBRACKET>>, post |-> <<RBRACKET>>],
      [pre |-> <<LBRACKET, 49, COMMA>>, post |-> <<RBRACKET>>],
      [pre |-> <<LBRACE>> \o Quoted(<<97>>) \o <<COLON>>, post |-> <<RBRACE>>],
      [pre |-> <<LBRACE>> \o Quoted(<<97>>) \o <<COLON, 49, COMMA>> \o Quoted(<<98>>)
               \o <<COLON>>,
       post |-> <<>>] }

RECURSIVE TrailingCommaAt(_)
TrailingCommaAt(depth) ==
    IF depth = 0 THEN TrailingCommaBase
    ELSE {[text |-> w.pre \o x.text \o w.post, pos |-> Len(w.pre) + x.pos] :
            x \in TrailingCommaAt(depth - 1), w \in Wrappers}

TrailingCommaCases ==
    {Case(x.text, "trailing_comma", <<>>, x.pos) :
        x \in UNION {TrailingCommaAt(d) : d \in 0..MaxDepth}}

SingleCases == OneDocCases \cup BlankCases \cup TrailingCommaCases

\* the characters number texts are made of:  - 0 1 . e E +
NumberChars == {MINUS, ZERO, 49, DOT, LOWER_E, UPPER_E, PLUS}

\* texts that start as a number does; pos is where the number starts
NumberCases ==
    {Case(lead \o <<c>> \o t, "number", <<>>, Len(lead)) :
        lead \in {<<>>, <<SPACE>>}, c \in {MINUS, ZERO, 49},
        t \in SeqsUpTo(NumberChars, MaxNumLen - 1)}

\* the characters string bodies are made of:  " \ n u 0 q newline é
StringChars == {QUOTE, BACKSLASH, LOWER_N, LOWER_U, ZERO, 113, NEWLINE, 233}

\* an opening quote and whatever follows; pos is where the quote stands
StringCases ==
    {Case(lead \o <<QUOTE>> \o t, "string", <<>>, Len(lead)) :
        lead \in {<<>>, <<SPACE>>}, t \in SeqsUpTo(StringChars, MaxStrLen)}

\* hexadecimal digits:  0 1 4 8 d D F
HexChars == {48, 49, 52, 56, 100, 68, 70}

\* "\uXXXX" for four hexadecimal digits, and the same cut short
UnicodeEscapeCases ==
    {Case(<<QUOTE, BACKSLASH, LOWER_U>> \o h \o <<QUOTE>>, "unicode_escape", <<>>, 0) :
        h \in [1..4 -> HexChars]}
    \cup
    {Case(<<QUOTE, BACKSLASH, LOWER_U>> \o h \o tail, "short_escape", <<>>, 0) :
        h \in SeqsUpTo({48, 70}, 3), tail \in {<<>>, <<QUOTE>>, <<113, QUOTE>>}}

\* "\uXXXX with no closing quote
OpenEscapeCases ==
    {Case(<<QUOTE, BACKSLASH, LOWER_U>> \o h, "open_escape", <<>>, 0) :
        h \in [1..4 -> HexChars]}

\* "\c" for every escape letter c and some characters that are none
SimpleEscapeCases ==
    {Case(<<QUOTE, BACKSLASH, c, QUOTE>>, "simple_escape", <<>>, 0) :
        c \in simple_escapes \cup {113, 97, 85, 48, SPACE, 233}}

StringSpecCases ==
    StringCases \cup UnicodeEscapeCases \cup OpenEscapeCases \cup SimpleEscapeCases

(***************************************************************************)
(* Specifications: one per way the program is used.                        *)
(***************************************************************************)
InitStream == \E c \in StreamCases : Construct(c)

InitSingle == \E c \in SingleCases : Construct(c)

InitNumber == \E c \in NumberCases : Construct(c)

InitString == \E c \in StringSpecCases : Construct(c)

\* stream mode, drained by a consumer that keeps pulling (process_stream)
SpecStream == InitStream /\ [][StreamNext]_vars /\ WF_vars(StreamNext)

\* parse_json_string
SpecSingle == InitSingle /\ [][ParseSingle]_vars

\* the tokenizer pulled directly, over number texts
SpecNumber == InitNumber /\ [][LexerNext]_vars

\* the tokenizer pulled directly, over string texts
SpecString == InitString /\ [][LexerNext]_vars

(***************************************************************************)
(* Properties.  results holds what the pulls made so far returned, last    *)
(* what the latest call returned.                                          *)
(***************************************************************************)
\* the input from position pos on
TextFrom(pos) == SubSeq(input, pos + 1, Len(input))

Contains(s, cs) == \E i \in 1..Len(s) : s[i] \in cs

IsDigits(s) == s # <<>> /\ \A i \in 1..Len(s) : s[i] \in 48..57

\* C1: in stream mode an input of N valid documents separated by whitespace
\* yields N Ok items, the documents' values in source order, and then the
\* end of the sequence.
C1_StreamYieldsDocuments ==
    given.family = "docs" =>
        \A i \in 1..Len(results) :
            IF i <= Len(given.values)
            THEN results[i] = Some(Ok(given.values[i]))
            ELSE results[i] = None

\* a valid document (an escaped surrogate pair) is answered with InvalidEscape
C1_ValidDocumentRejected ==
    /\ given.family = "docs"
    /\ \E i \in 1..Len(results) :
        /\ i <= Len(given.values)
        /\ results[i] # None
        /\ ~results[i].v.ok
        /\ results[i].v.err.kind = "InvalidEscape"

\* C2: for every finite input the stream-mode sequence ends: after finitely
\* many pulls a pull returns the end of the sequence, so draining terminates.
C2_StreamEnds == <>(last.called /\ last.r = None)

\* every pull so far returned the same error, and the next pull returns it
\* again and leaves the parser exactly as it is: no later pull can differ
C2_SameErrorAgain ==
    /\ Len(results) = MaxPulls
    /\ \A i \in 1..Len(results) : results[i] = results[1]
    /\ last.r # None
    /\ ~last.r.v.ok
    /\ stream_next(parser_state) = [r |-> last.r, ps |-> parser_state]

\* C3: parse_single returns Ok(v) only for one value followed by nothing but
\* whitespace, and then v is that value; when a further lexeme follows the
\* value it returns UnexpectedToken expecting "end of input" at the position
\* where that lexeme starts; blank input is an error.
C3_SingleDocument ==
    last.called =>
        /\ last.r.ok =>
            /\ given.family = "one_doc"
            /\ given.pos = -1
            /\ last.r.v = given.values[1]
        /\ given.family = "one_doc" /\ given.pos = -1 => last.r.ok
        /\ given.family = "one_doc" /\ given.pos >= 0 =>
            /\ ~last.r.ok
            /\ last.r.err.kind = "UnexpectedToken"
            /\ last.r.err.expected = "end of input"
            /\ last.r.err.position = given.pos
        /\ given.family = "blank" => ~last.r.ok

\* a value, a line break and one more lexeme: rejected at that lexeme
C3_TrailingLexemeRejected ==
    /\ last.called
    /\ given.family = "one_doc"
    /\ given.pos > 0
    /\ input[given.pos] = NEWLINE
    /\ ~last.r.ok
    /\ last.r.err.kind = "UnexpectedToken"
    /\ last.r.err.position = given.pos

\* C4: in an object or an array, at every nesting depth and after any
\* number of members, a comma that follows a member and is followed
\* (whitespace aside) by the closing brace or bracket makes the parse fail
\* with TrailingComma at the position of that closer.
C4_TrailingComma ==
    last.called /\ given.family = "trailing_comma" =>
        /\ ~last.r.ok
        /\ last.r.err.kind = "TrailingComma"
        /\ last.r.err.position = given.pos

\* a trailing comma two levels down, after two members and some whitespace
C4_NestedTrailingComma ==
    /\ last.called
    /\ given.family = "trailing_comma"
    /\ given.pos >= 12
    /\ input[given.pos] \in {SPACE, NEWLINE}
    /\ ~last.r.ok
    /\ last.r.err.kind = "TrailingComma"

\* C5: in stream mode, k valid documents followed by a malformed one yield
\* k Ok items with the documents' values in order and then an Err.
C5_MalformedDocumentReported ==
    given.family = "docs_then_malformed" =>
        \A i \in 1..Len(results) :
            /\ i <= Len(given.values) => results[i] = Some(Ok(given.values[i]))
            /\ i = Len(given.values) + 1 => results[i] # None /\ ~results[i].v.ok

\* the pull that meets the malformed document 01 returns Ok(0)
C5_MalformedDocumentAccepted ==
    /\ given.family = "docs_then_malformed"
    /\ Len(results) > Len(given.values)
    /\ results[Len(given.values) + 1] = Some(Ok(JsonNumber(f64(0, 0))))

\* an optional '-', a '0' and directly another digit
LeadingZero(t) ==
    \E s \in 0..1 :
        /\ Len(t) >= s + 2
        /\ s = 1 => t[1] = MINUS
        /\ t[s + 1] = ZERO
        /\ t[s + 2] \in 48..57

\* C6: a number whose integer part is a 0 followed directly by another
\* digit is rejected by the tokenizer as InvalidNumber.
C6_LeadingZeroRejected ==
    given.family = "number" /\ LeadingZero(TextFrom(given.pos)) /\ Len(results) >= 1 =>
        ~results[1].ok /\ results[1].err.kind = "InvalidNumber"

\* the tokenizer reads 01 as the number 0 and stops in front of the 1
C6_LeadingZeroSplit ==
    /\ given.family = "number"
    /\ TextFrom(given.pos) = <<ZERO, 49>>
    /\ Len(results) = 1
    /\ results[1] = Ok(NumberToken(f64(0, 0), given.pos))
    /\ lexer.position = given.pos + 1

\* a text of the form (0|[1-9][0-9]*)
IsInteger(s) == s = <<ZERO>> \/ (IsDigits(s) /\ s[1] # ZERO)

\* a text that is empty or of the form \.[0-9]+
IsFraction(s) == s = <<>> \/ (s[1] = DOT /\ IsDigits(Tail(s)))

\* a text that is empty or of the form [eE][+-]?[0-9]+
IsExponent(s) ==
    \/ s = <<>>
    \/ /\ s[1] \in {LOWER_E, UPPER_E}
       /\ \/ IsDigits(Tail(s))
          \/ Len(s) >= 2 /\ s[2] \in {PLUS, MINUS} /\ IsDigits(SubSeq(s, 3, Len(s)))

\* a text of the form -?(0|[1-9][0-9]*)(\.[0-9]+)?([eE][+-]?[0-9]+)?
IsNumber(s) ==
    \E i \in 0..1, j \in 1..Len(s), k \in 1..Len(s) :
        /\ i < j /\ j <= k
        /\ i = 1 => s[1] = MINUS
        /\ IsInteger(SubSeq(s, i + 1, j))
        /\ IsFraction(SubSeq(s, j + 1, k))
        /\ IsExponent(SubSeq(s, k + 1, Len(s)))

\* the length of the longest prefix of t that is a number, 0 when none is
MaxNumberPrefix(t) ==
    LET ks == {k \in 1..Len(t) : IsNumber(SubSeq(t, 1, k))}
    IN  IF ks = {} THEN 0 ELSE CHOOSE k \in ks : \A other \in ks : other <= k

\* after the number t[1..k] comes a '.' or an 'e'/'E' that the number could
\* have gone on with; k being maximal, no digit follows where one is needed
Dangling(t, k) ==
    /\ k < Len(t)
    /\ \/ t[k + 1] = DOT /\ ~Contains(SubSeq(t, 1, k), {DOT, LOWER_E, UPPER_E})
       \/ t[k + 1] \in {LOWER_E, UPPER_E} /\ ~Contains(SubSeq(t, 1, k), {LOWER_E, UPPER_E})

\* number texts with the value each denotes:
\*   0  -0  1  -1  10  11  100  0.1  1.1  -1.1  0.01  1.10  1e1  1E1  1e0
\*   1e-1  1e+1  -1e1  1e10  0e1
NumberValues ==
    { <<<<48>>, 0, 0>>, <<<<45, 48>>, 0, 0>>, <<<<49>>, 1, 0>>, <<<<45, 49>>, -1, 0>>,
      <<<<49, 48>>, 1, 1>>, <<<<49, 49>>, 11, 0>>, <<<<49, 48, 48>>, 1, 2>>,
      <<<<48, 46, 49>>, 1, -1>>, <<<<49, 46, 49>>, 11, -1>>,
      <<<<45, 49, 46, 49>>, -11, -1>>, <<<<48, 46, 48, 49>>, 1, -2>>,
      <<<<49, 46, 49, 48>>, 11, -1>>,
      <<<<49, 101, 49>>, 1, 1>>, <<<<49, 69, 49>>, 1, 1>>, <<<<49, 101, 48>>, 1, 0>>,
      <<<<49, 101, 45, 49>>, 1, -1>>, <<<<49, 101, 43, 49>>, 1, 1>>,
      <<<<45, 49, 101, 49>>, -1, 1>>, <<<<49, 101, 49, 48>>, 1, 10>>,
      <<<<48, 101, 49>>, 0, 0>> }

\* C7: read_number consumes the longest prefix of the form
\* -?(0|[1-9][0-9]*)(\.[0-9]+)?([eE][+-]?[0-9]+)? and yields a Number at the
\* position where the number starts, with the value the prefix denotes; a
\* '-' with no digit after it, a '.' with no digit after it and an 'e' or
\* 'E' (and optional sign) with no digit after it yield InvalidNumber at
\* the position of the number's first character.
C7_ReadNumber ==
    given.family = "number" /\ Len(results) = 1 =>
        LET t == TextFrom(given.pos)
            k == MaxNumberPrefix(t)
        IN  IF k = 0 \/ Dangling(t, k)
            THEN results[1] = Err(ParseError("InvalidNumber", given.pos))
            ELSE /\ results[1].ok
                 /\ results[1].v.token_type = "Number"
                 /\ results[1].v.position = given.pos
                 /\ lexer.position = given.pos + k
                 /\ \A nv \in NumberValues :
                        nv[1] = SubSeq(t, 1, k) =>
                            results[1].v.n = [m |-> nv[2], e |-> nv[3]]

\* 1e-1 after a space: the number 0.1 at position 1, four characters long
C7_NumberWithExponent ==
    /\ given.family = "number"
    /\ given.pos = 1
    /\ TextFrom(given.pos) = <<49, LOWER_E, MINUS, 49>>
    /\ Len(results) = 1
    /\ results[1] = Ok(NumberToken([m |-> 1, e |-> -1], 1))
    /\ lexer.position = 5

\* the hexadecimal digits in order of value
HexText == <<48, 49, 50, 51, 52, 53, 54, 55, 56, 57, 97, 98, 99, 100, 101, 102>>

HexValue(c) == (CHOOSE i \in 1..16 : HexText[i] = c \/ HexText[i] = c + 32) - 1

\* the code point four hexadecimal digits write
CodePoint(h) ==
    4096 * HexValue(h[1]) + 256 * HexValue(h[2]) + 16 * HexValue(h[3]) + HexValue(h[4])

\* escape letters with the character each stands for:
\*   "  \  /  b  f  n  r  t
EscapeTable ==
    { <<34, 34>>, <<92, 92>>, <<47, 47>>, <<98, 8>>, <<102, 12>>, <<110, 10>>,
      <<114, 13>>, <<116, 9>> }

\* C8: string lexing decodes \" \\ \/ \b \f \n \r \t to their characters and
\* \u with four hexadecimal digits, whatever the digits, to the character
\* with that code point; a backslash before any other character, and \u
\* with fewer than four hexadecimal digits, fail with InvalidEscape.
C8_EscapesDecoded ==
    Len(results) >= 1 =>
        /\ given.family = "simple_escape" =>
            IF \E p \in EscapeTable : p[1] = input[3]
            THEN \E p \in EscapeTable :
                    p[1] = input[3] /\ results[1] = Ok(StringToken(<<p[2]>>, 0))
            ELSE ~results[1].ok /\ results[1].err.kind = "InvalidEscape"
        /\ given.family = "unicode_escape" =>
            results[1] = Ok(StringToken(<<CodePoint(SubSeq(input, 4, 7))>>, 0))
        /\ given.family = "short_escape" =>
            ~results[1].ok /\ results[1].err.kind = "InvalidEscape"

\* \u with the four hexadecimal digits of a surrogate fails with InvalidEscape
C8_SurrogateRejected ==
    /\ given.family = "unicode_escape"
    /\ Len(results) = 1
    /\ IsDigits(<<input[5]>>) /\ IsDigits(<<input[6]>>) /\ IsDigits(<<input[7]>>)
    /\ CodePoint(SubSeq(input, 4, 7)) \in 55296..57343
    /\ ~results[1].ok
    /\ results[1].err.kind = "InvalidEscape"

\* the number of backslashes that stand directly before index i of s
RECURSIVE BackslashesBefore(_, _)
BackslashesBefore(s, i) ==
    IF i > 1 /\ s[i - 1] = BACKSLASH THEN 1 + BackslashesBefore(s, i - 1) ELSE 0

\* a character is escaped when an odd number of backslashes stands before it
Escaped(s, i) == BackslashesBefore(s, i) % 2 = 1

\* a string body in which no quote closes the string
Unclosed(body) == \A i \in 1..Len(body) : body[i] = QUOTE => Escaped(body, i)

\* a backslash of the body starts an escape the tokenizer rejects: the next
\* character is no escape letter, or it is a 'u' that is not followed by
\* four hexadecimal digits that write a Unicode scalar value
RejectedEscape(body) ==
    \E i \in 1..(Len(body) - 1) :
        /\ body[i] = BACKSLASH
        /\ ~Escaped(body, i)
        /\ IF body[i + 1] = LOWER_U
           THEN \/ i + 5 > Len(body)
                \/ \E j \in (i + 2)..(i + 5) :
                      \A x \in 1..16 : HexText[x] # body[j] /\ HexText[x] # body[j] + 32
                \/ CodePoint(SubSeq(body, i + 2, i + 5)) \in 55296..57343
           ELSE \A p \in EscapeTable : p[1] # body[i + 1]

\* C9 as stated: whenever a string is opened and the input ends before a
\* quote closes it, whatever the body holds, the tokenizer yields
\* UnterminatedString at the position of the opening quote.
C9_UnterminatedAlways ==
    Len(results) >= 1 /\ Unclosed(TextFrom(given.pos + 1)) =>
        results[1] = Err(ParseError("UnterminatedString", given.pos))

\* C9, amended: when a string is opened and the input ends before a quote
\* closes it, the tokenizer yields an error: InvalidEscape when the body
\* holds an escape it rejects (also a \u the end of input cuts short), and
\* otherwise (also with a backslash pending at the end) UnterminatedString
\* at the position of the opening quote.
C9_UnterminatedUnlessEscapeRejected ==
    Len(results) >= 1 /\ Unclosed(TextFrom(given.pos + 1)) =>
        IF RejectedEscape(TextFrom(given.pos + 1))
        THEN ~results[1].ok /\ results[1].err.kind = "InvalidEscape"
        ELSE results[1] = Err(ParseError("UnterminatedString", given.pos))

\* a string after a space, left open with a decoded escape and a pending
\* backslash: UnterminatedString at the quote
C9_PendingBackslash ==
    /\ given.family = "string"
    /\ given.pos = 1
    /\ TextFrom(given.pos + 1) = <<BACKSLASH, LOWER_N, BACKSLASH>>
    /\ Len(results) = 1
    /\ results[1] = Err(ParseError("UnterminatedString", 1))

\* the characters the scanner has taken: those the reader has delivered
\* less those still unread in the line buffer
Consumed(lx) == lx.reader - (lx.line_chars.end - lx.line_chars.next + 1)

\* whitespace of the JSON grammar
JsonWhitespace == {SPACE, TAB, NEWLINE, CARRIAGE}

\* the position of the first character at or after position p that is not
\* whitespace (the length of the input when there is none)
LexemeStart(p) ==
    CHOOSE q \in p..Len(input) :
        /\ \A i \in (p + 1)..q : input[i] \in JsonWhitespace
        /\ q < Len(input) => input[q + 1] \notin JsonWhitespace

\* C10: positions count characters.  Over every pull on the tokenizer the
\* position counter equals the number of characters taken (one per
\* character, whatever its width in bytes, across line refills) and never
\* decreases; a lexeme, and an error raised where a lexeme starts, carries
\* the number of characters in front of the lexeme's first character; an
\* InvalidEscape carries the number of characters taken when it was raised.
C10_PositionsCountCharacters ==
    [][/\ lexer'.position = Consumed(lexer')
       /\ lexer'.position >= lexer.position
       /\ IF last'.r.ok
          THEN last'.r.v.position = LexemeStart(Consumed(lexer))
          ELSE IF last'.r.err.kind = "InvalidEscape"
          THEN last'.r.err.position = Consumed(lexer')
          ELSE last'.r.err.position = LexemeStart(Consumed(lexer))]_vars

\* after a string holding a two-byte character, an error at the fourth
\* character is reported at position 3
C10_ErrorAfterMultiByte ==
    /\ given.family = "string"
    /\ input = <<QUOTE, 233, QUOTE, 113>>
    /\ Len(results) = 2
    /\ results[1] = Ok(StringToken(<<233>>, 0))
    /\ results[2] = Err(InvalidCharacter(113, 3))

\* an item of the stream that is an error
IsErrItem(item) == item # None /\ ~item.v.ok

\* C11: an error produced by a pull on the stream has a position that is at
\* most the number of characters the scanner has consumed when it is
\* reported, and greater than the position of every error reported before
\* it within the same document (the inputs hold one malformed document,
\* the last one, so every error reported belongs to it).
C11_ErrorPositionsAdvance ==
    [][given.family = "docs_then_malformed" /\ IsErrItem(last'.r) =>
          /\ last'.r.v.err.position <= Consumed(lexer')
          /\ \A i \in 1..Len(results) :
                IsErrItem(results[i]) =>
                    results[i].v.err.position < last'.r.v.err.position]_vars

\* [1,] : TrailingComma at 3, and on the next pull UnexpectedToken at 3 again
C11_SamePositionTwice ==
    /\ given.family = "docs_then_malformed"
    /\ input = <<LBRACKET, 49, COMMA, RBRACKET>>
    /\ Len(results) = 2
    /\ IsErrItem(results[1]) /\ IsErrItem(results[2])
    /\ results[1].v.err.kind = "TrailingComma"
    /\ results[2].v.err.kind = "UnexpectedToken"
    /\ results[1].v.err.position = 3
    /\ results[2].v.err.position = 3

(***************************************************************************)
(* Objects with repeated keys.                                             *)
(***************************************************************************)
\* pairs to write into an object: a key "a" or "b" with the value 1, 0 or null
PairChoices ==
    {[key |-> k, text |-> Quoted(k) \o <<COLON>> \o v.text, value |-> v.value] :
        k \in {<<97>>, <<98>>},
        v \in { [text |-> <<49>>, value |-> JsonNumber(f64(1, 0))],
                [text |-> <<ZERO>>, value |-> JsonNumber(f64(0, 0))],
                [text |-> NULL_STR, value |-> JsonNull] }}

\* the texts of pairs ps[i..], separated by commas
RECURSIVE PairsText(_, _)
PairsText(ps, i) ==
    IF i > Len(ps) THEN <<>>
    ELSE ps[i].text \o (IF i < Len(ps) THEN <<COMMA>> ELSE <<>>) \o PairsText(ps, i + 1)

\* one object of 1 .. MaxMembers + 1 pairs; values is the list of the pairs
PairsCases ==
    {Case(<<LBRACE>> \o PairsText(ps, 1) \o <<RBRACE>>, "pairs", ps, -1) :
        ps \in UNION {[1..n -> PairChoices] : n \in 1..(MaxMembers + 1)}}

InitPairs == \E c \in PairsCases : Construct(c)

\* parse_json_string over objects whose keys may repeat
SpecPairs == InitPairs /\ [][ParseSingle]_vars

\* C12: when an object holds the same key in several pairs, the resulting
\* mapping holds each key once, bound to the value of the last pair with
\* that key in source order.
C12_LastWriteWins ==
    last.called /\ given.family = "pairs" =>
        /\ last.r.ok
        /\ last.r.v.type = "Object"
        /\ DOMAIN last.r.v.obj = {given.values[i].key : i \in 1..Len(given.values)}
        /\ \A i \in 1..Len(given.values) :
              (\A j \in (i + 1)..Len(given.values) :
                    given.values[j].key # given.values[i].key)
                  => last.r.v.obj[given.values[i].key] = given.values[i].value

\* {"a":1,"b":null,"a":0} gives a -> 0, b -> null
C12_KeyOverwritten ==
    /\ last.called
    /\ given.family = "pairs"
    /\ Len(given.values) = 3
    /\ given.values[1].key = <<97>> /\ given.values[1].value = JsonNumber(f64(1, 0))
    /\ given.values[2].key = <<98>> /\ given.values[2].value = JsonNull
    /\ given.values[3].key = <<97>> /\ given.values[3].value = JsonNumber(f64(0, 0))
    /\ last.r = Ok(JsonObject([k \in {<<97>>, <<98>>} |->
                      IF k = <<97>> THEN JsonNumber(f64(0, 0)) ELSE JsonNull]))

\* C13: the tokenizer never ends on absence of input: once every character
\* of the input has been consumed, a pull returns an Eof lexeme whose
\* position is the number of characters of the input, and leaves every
\* character consumed, so each further pull does the same.
C13_EofForever ==
    Consumed(lexer) = Len(input) =>
        /\ lexer_next(lexer).r = Ok(Token("Eof", Len(input)))
        /\ Consumed(lexer_next(lexer).lx) = Len(input)

\* an unterminated string used up the input; the two pulls after it gave Eof
C13_EofTwice ==
    /\ Len(input) >= 3
    /\ Len(results) = 3
    /\ ~results[1].ok
    /\ results[1].err.kind = "UnterminatedString"
    /\ results[2] = Ok(Token("Eof", Len(input)))
    /\ results[3] = Ok(Token("Eof", Len(input)))
    /\ Consumed(lexer) = Len(input)

(***************************************************************************)
(* The tokenizer over single characters between lexemes.                   *)
(***************************************************************************)
\* characters that start no lexeme and are no JSON whitespace:
\*   NUL  VT  FF  #  @  NEL  NBSP  e-acute  EN QUAD  LINE SEPARATOR
\*   IDEOGRAPHIC SPACE
StrayChars == {0, 11, 12, 35, 64, 133, 160, 233, 8192, 8232, 12288}

\* an optional lexeme (1 or [), one character, and another optional lexeme;
\* pos is the position of the character
GapCases ==
    {Case(pre \o <<c>> \o post, "gap", <<>>, Len(pre)) :
        pre \in {<<>>, <<49>>, <<LBRACKET>>},
        c \in JsonWhitespace \cup StrayChars,
        post \in {<<>>, <<49>>, <<RBRACKET>>, Quoted(<<97>>)}}

\* C14: the characters skipped before a lexeme are exactly space, tab,
\* newline and carriage return: such a character is passed over and the
\* pull yields what follows it, and any other character that starts no
\* lexeme is reported by an error at its own position.
C14_OnlyJsonWhitespaceSkipped ==
    given.family = "gap" /\ Len(results) = given.pos + 1 =>
        IF input[given.pos + 1] \in JsonWhitespace
        THEN /\ results[given.pos + 1].ok
             /\ results[given.pos + 1].v.position = given.pos + 1
        ELSE /\ ~results[given.pos + 1].ok
             /\ results[given.pos + 1].err.position = given.pos

\* a no-break space in front of 1 is skipped: the pull yields the number
C14_NoBreakSpaceSkipped ==
    /\ given.family = "gap"
    /\ input = <<160, 49>>
    /\ Len(results) = 1
    /\ results[1] = Ok(NumberToken(f64(1, 0), 1))

\* letters: the ASCII letters and e-acute
Letters == (65..90) \cup (97..122) \cup {233}

\* runs of letters:  true false null tru truee nul nulll True t fals falsee
\*   n  NULL  tr(e-acute)  x
LetterRuns ==
    { TRUE_STR, FALSE_STR, NULL_STR, <<116, 114, 117>>, <<116, 114, 117, 101, 101>>,
      <<110, 117, 108>>, <<110, 117, 108, 108, 108>>, <<84, 114, 117, 101>>, <<116>>,
      <<102, 97, 108, 115>>, <<102, 97, 108, 115, 101, 101>>, <<110>>,
      <<78, 85, 76, 76>>, <<116, 114, 233>>, <<120>> }

\* a run of letters after optional whitespace, followed by nothing, by a
\* character that ends the run (space, newline, 1, comma) or by one that
\* lengthens it (e-acute, x); pos is where the run starts
LiteralCases ==
    {Case(lead \o run \o follow, "literal", <<>>, Len(lead)) :
        lead \in {<<>>, <<SPACE>>, <<NEWLINE, SPACE>>},
        run \in LetterRuns,
        follow \in {<<>>, <<SPACE>>, <<NEWLINE>>, <<49>>, <<COMMA>>, <<233>>, <<120>>}}

\* a character that starts no lexeme, in front of a 5:
\*   .  +  #  FF  NBSP  e-acute
NoRuleCases ==
    {Case(lead \o <<c, 53>>, "no_rule", <<>>, Len(lead)) :
        lead \in {<<>>, <<SPACE>>}, c \in {DOT, PLUS, 35, 12, 160, 233}}

TokenCases == GapCases \cup LiteralCases \cup NoRuleCases

InitTokens == \E c \in TokenCases : Construct(c)

\* the tokenizer pulled directly, over literals and stray characters
SpecTokens == InitTokens /\ [][LexerNext]_vars

\* the length of the longest prefix of t made of letters
RECURSIVE LetterRunLength(_)
LetterRunLength(t) ==
    IF t # <<>> /\ t[1] \in Letters THEN 1 + LetterRunLength(Tail(t)) ELSE 0

\* C15: literal lexing consumes the longest run of alphabetic characters
\* and yields Boolean(true), Boolean(false) or Null exactly when the run is
\* true, false or null; any other run, and any character that starts no
\* lexeme, yields InvalidCharacter at the position where it begins.
C15_Literals ==
    Len(results) = 1 =>
        /\ given.family = "literal" =>
            LET run == SubSeq(input, given.pos + 1,
                              given.pos + LetterRunLength(TextFrom(given.pos)))
            IN  /\ lexer.position = given.pos + Len(run)
                /\ results[1] =
                     IF run = TRUE_STR THEN Ok(BooleanToken(TRUE, given.pos))
                     ELSE IF run = FALSE_STR THEN Ok(BooleanToken(FALSE, given.pos))
                     ELSE IF run = NULL_STR THEN Ok(Token("Null", given.pos))
                     ELSE Err(InvalidCharacter(run[1], given.pos))
        /\ given.family = "no_rule" =>
            results[1] = Err(InvalidCharacter(input[given.pos + 1], given.pos))

\* a form feed in front of 5 starts no lexeme, yet the pull yields the number
C15_FormFeedNotReported ==
    /\ given.family = "no_rule"
    /\ input = <<12, 53>>
    /\ Len(results) = 1
    /\ results[1] = Ok(NumberToken(f64(5, 0), 1))

(***************************************************************************)
(* Display for JsonValue (types.rs) and the round trip through it.         *)
(***************************************************************************)
\* the decimal digits of a natural number
RECURSIVE digits_of(_)
digits_of(n) ==
    IF n < 10 THEN <<ZERO + n>> ELSE Append(digits_of(n \div 10), ZERO + (n % 10))

\* k zeros
zeros(k) == [i \in 1..k |-> ZERO]

\* Display for f64: plain decimal notation, never an exponent
fmt_f64(n) ==
    LET ds == digits_of(IF n.m < 0 THEN 0 - n.m ELSE n.m)
        sign == IF n.m < 0 THEN <<MINUS>> ELSE <<>>
    IN  IF n.e >= 0 THEN sign \o ds \o zeros(n.e)
        ELSE IF Len(ds) > 0 - n.e
        THEN sign \o SubSeq(ds, 1, Len(ds) + n.e) \o <<DOT>>
                  \o SubSeq(ds, Len(ds) + n.e + 1, Len(ds))
        ELSE sign \o <<ZERO, DOT>> \o zeros(0 - n.e - Len(ds)) \o ds

\* the orders in which a HashMap with key set ks may be iterated
key_orders(ks) ==
    {p \in [1..Cardinality(ks) -> ks] : \A i, j \in 1..Cardinality(ks) : p[i] = p[j] => i = j}

\* Display for JsonValue: the texts fmt may write, one per iteration order
\* of the objects in the value.  Strings and keys are written as they are.
RECURSIVE fmt(_), fmt_array(_, _), fmt_object(_, _, _)
fmt(v) ==
    CASE v.type = "String" -> {<<QUOTE>> \o v.s \o <<QUOTE>>}
      [] v.type = "Number" -> {fmt_f64(v.n)}
      [] v.type = "Boolean" -> {IF v.b THEN TRUE_STR ELSE FALSE_STR}
      [] v.type = "Null" -> {NULL_STR}
      [] v.type = "Object" ->
            {<<LBRACE>> \o t \o <<RBRACE>> :
                t \in UNION {fmt_object(v.obj, order, 1) : order \in key_orders(DOMAIN v.obj)}}
      [] v.type = "Array" ->
            {<<LBRACKET>> \o t \o <<RBRACKET>> : t \in fmt_array(v.arr, 1)}

\* the `for value in arr` loop, from element i on
fmt_array(arr, i) ==
    IF i > Len(arr) THEN {<<>>}
    ELSE {(IF i > 1 THEN <<COMMA>> ELSE <<>>) \o t \o rest :
             t \in fmt(arr[i]), rest \in fmt_array(arr, i + 1)}

\* the `for (key, value) in obj` loop, from the i-th key of the order on
fmt_object(obj, order, i) ==
    IF i > Len(order) THEN {<<>>}
    ELSE {(IF i > 1 THEN <<COMMA>> ELSE <<>>) \o <<QUOTE>> \o order[i] \o <<QUOTE, COLON>>
              \o t \o rest :
             t \in fmt(obj[order[i]]), rest \in fmt_object(obj, order, i + 1)}

\* value.to_string(): one of the texts Display may write
Display ==
    /\ given.family = "round_trip"
    /\ input = <<>>
    /\ input' \in fmt(given.values[1])
    /\ UNCHANGED <<given, lexer, current_token, peeked_token, results, last, previous>>

\* parse_json_string on the text written
ParseRendered == input # <<>> /\ ParseSingle

\* strings:  (empty)  a  "  \  \n  a"b  newline  e-acute
RoundTripStrings ==
    { <<>>, <<97>>, <<QUOTE>>, <<BACKSLASH>>, <<BACKSLASH, LOWER_N>>,
      <<97, QUOTE, 98>>, <<NEWLINE>>, <<233>> }

\* numbers:  0  1  -0.5  1000  1.5  -12  0.01
RoundTripNumbers ==
    { f64(0, 0), f64(1, 0), f64(-5, -1), f64(1, 3), f64(15, -1), f64(-12, 0),
      f64(1, -2) }

RoundTripScalars ==
    {JsonString(x) : x \in RoundTripStrings} \cup {JsonNumber(x) : x \in RoundTripNumbers}
    \cup {JsonBoolean(TRUE), JsonBoolean(FALSE), JsonNull}

\* the scalars put into arrays and objects
RoundTripMembers ==
    {JsonString(<<97>>), JsonString(<<QUOTE>>), JsonNumber(f64(-5, -1)),
     JsonBoolean(TRUE), JsonNull}

RoundTripFlat ==
    {JsonArray(a) : a \in SeqsUpTo(RoundTripMembers, 2)}
    \cup {JsonObject(o) : o \in UNION {[ks -> RoundTripMembers] :
                                        ks \in SUBSET {<<97>>, <<98, QUOTE>>}}}

RoundTripValues ==
    RoundTripScalars \cup RoundTripFlat
    \cup {JsonArray(<<x>>) : x \in RoundTripFlat}
    \cup {JsonObject([k \in {<<97>>} |-> x]) : x \in RoundTripFlat}

InitRoundTrip ==
    \E v \in RoundTripValues :
        /\ input = <<>>
        /\ given = [family |-> "round_trip", values |-> <<v>>, pos |-> -1]
        /\ lexer = new_parser.lexer
        /\ current_token = new_parser.current_token
        /\ peeked_token = new_parser.peeked_token
        /\ results = <<>>
        /\ last = NotCalled
        /\ previous = <<>>

\* a value written with Display and read back with parse_json_string
SpecRoundTrip == InitRoundTrip /\ [][Display \/ ParseRendered]_vars

\* C16: writing a value built from String, Number, Boolean, Null, Object and
\* Array with Display and parsing the text with parse_json_string yields a
\* value equal to it, whatever the strings and keys hold.
C16_RoundTrip ==
    given.family = "round_trip" /\ last.called => last.r = Ok(given.values[1])

\* the string made of one quote is written as """ and does not parse
C16_QuoteNotEscaped ==
    /\ given.family = "round_trip"
    /\ given.values[1] = JsonString(<<QUOTE>>)
    /\ input = <<QUOTE, QUOTE, QUOTE>>
    /\ last.called
    /\ ~last.r.ok

(***************************************************************************)
(* Work done by a pull in stream mode.                                     *)
(***************************************************************************)
IsOkItem(item) == item # None /\ item.v.ok

\* the index where the line holding character i of the input ends
LineEnd(i) ==
    IF \E k \in i..Len(input) : k >= 1 /\ input[k] = NEWLINE
    THEN CHOOSE k \in i..Len(input) :
             /\ k >= 1 /\ input[k] = NEWLINE
             /\ \A j \in i..(k - 1) : j < 1 \/ input[j] # NEWLINE
    ELSE Len(input)

\* C17: a pull in stream mode does only the work the next value needs: the
\* parser holds at most one lookahead lexeme, none once a pull has returned
\* a value, and the scanner has then read from the source nothing beyond
\* the line that holds the last character of the value.
C17_NoReadAhead ==
    given.family \in {"docs", "docs_then_malformed"} /\ last.called /\ IsOkItem(last.r)
    => /\ peeked_token = None
       /\ lexer.filled <= LineEnd(Consumed(lexer))

\* after the first value of two lines the whole input has been read
C17_SecondLineRead ==
    /\ given.family = "docs"
    /\ input = <<49, NEWLINE>> \o TRUE_STR
    /\ results = <<Some(Ok(JsonNumber(f64(1, 0))))>>
    /\ peeked_token = None
    /\ lexer.reader = 2
    /\ lexer.filled = 6

(***************************************************************************)
(* Two parsers, one after the other, over the same input.                  *)
(***************************************************************************)
\* a second parser that takes over the scanner of the first
AgainSameLexer ==
    /\ previous = <<>>
    /\ last.called
    /\ previous' = results
    /\ lexer' = lexer
    /\ current_token' = new_parser.current_token
    /\ peeked_token' = new_parser.peeked_token
    /\ results' = <<>>
    /\ last' = NotCalled
    /\ UNCHANGED <<input, given>>

\* the parser is dropped and StreamingJsonParser::new builds another one
\* over the same input
Again ==
    /\ previous = <<>>
    /\ last.called
    /\ previous' = results
    /\ lexer' = new_parser.lexer
    /\ current_token' = new_parser.current_token
    /\ peeked_token' = new_parser.peeked_token
    /\ results' = <<>>
    /\ last' = NotCalled
    /\ UNCHANGED <<input, given>>

SpecTwice == InitStream /\ [][StreamNext \/ Again]_vars

MaxLexemes == 4

Lexeme(token_type, text, value) ==
    [token_type |-> token_type, text |-> text, value |-> value]

LexemeOf ==
    [ lb |-> Lexeme("LeftBrace", <<LBRACE>>, JsonNull),
      rb |-> Lexeme("RightBrace", <<RBRACE>>, JsonNull),
      lk |-> Lexeme("LeftBracket", <<LBRACKET>>, JsonNull),
      rk |-> Lexeme("RightBracket", <<RBRACKET>>, JsonNull),
      cm |-> Lexeme("Comma", <<COMMA>>, JsonNull),
      cl |-> Lexeme("Colon", <<COLON>>, JsonNull),
      a |-> Lexeme("String", Quoted(<<97>>), JsonString(<<97>>)),
      b |-> Lexeme("String", Quoted(<<98>>), JsonString(<<98>>)),
      one |-> Lexeme("Number", <<49>>, JsonNumber(f64(1, 0))),
      null |-> Lexeme("Null", NULL_STR, JsonNull) ]

Lexemes == {LexemeOf[n] : n \in DOMAIN LexemeOf}

\* the texts of the lexemes, one space between two of them
RECURSIVE LexemesText(_, _)
LexemesText(t, i) ==
    IF i > Len(t) THEN <<>>
    ELSE (IF i > 1 THEN <<SPACE>> ELSE <<>>) \o t[i].text \o LexemesText(t, i + 1)

\* documents of the grammar:  []  {}  [1,null]  ["a",1,null]  [[],{}]
\* [[1],1]  {"a":1}  {"a":1,"b":null}  {"a":1,"a":null}  {"a":[1]}
\* {"a":{"b":1}}  [{"a":1}]
GrammarDocs ==
    LET x == LexemeOf
    IN { <<x.lk, x.rk>>, <<x.lb, x.rb>>,
         <<x.lk, x.one, x.cm, x.null, x.rk>>,
         <<x.lk, x.a, x.cm, x.one, x.cm, x.null, x.rk>>,
         <<x.lk, x.lk, x.rk, x.cm, x.lb, x.rb, x.rk>>,
         <<x.lk, x.lk, x.one, x.rk, x.cm, x.one, x.rk>>,
         <<x.lb, x.a, x.cl, x.one, x.rb>>,
         <<x.lb, x.a, x.cl, x.one, x.cm, x.b, x.cl, x.null, x.rb>>,
         <<x.lb, x.a, x.cl, x.one, x.cm, x.a, x.cl, x.null, x.rb>>,
         <<x.lb, x.a, x.cl, x.lk, x.one, x.rk, x.rb>>,
         <<x.lb, x.a, x.cl, x.lb, x.b, x.cl, x.one, x.rb, x.rb>>,
         <<x.lk, x.lb, x.a, x.cl, x.one, x.rb, x.rk>> }

\* a document with one lexeme taken out, put in or replaced
Edits(t) ==
    {t}
    \cup {SubSeq(t, 1, i - 1) \o SubSeq(t, i + 1, Len(t)) : i \in 1..Len(t)}
    \cup {SubSeq(t, 1, i) \o <<l>> \o SubSeq(t, i + 1, Len(t)) : i \in 0..Len(t), l \in Lexemes}
    \cup {[t EXCEPT ![i] = l] : i \in 1..Len(t), l \in Lexemes}

\* every short lexeme sequence, and the documents with one edit
LexemeCases ==
    {Case(LexemesText(t, 1), "lexemes", t, 0) :
        t \in SeqsUpTo(Lexemes, MaxLexemes) \cup UNION {Edits(d) : d \in GrammarDocs}}

InitLexemes == \E c \in LexemeCases : Construct(c)

SpecLexemes == InitLexemes /\ [][ParseSingle]_vars

RECURSIVE IsValue(_, _, _), IsElements(_, _, _), IsPairs(_, _, _)
\* value := object | array | string | number | boolean | null, over t[i..j]
IsValue(t, i, j) ==
    \/ i = j /\ t[i].token_type \in {"String", "Number", "Boolean", "Null"}
    \/ /\ i < j
       /\ t[i].token_type = "LeftBracket"
       /\ t[j].token_type = "RightBracket"
       /\ (j = i + 1 \/ IsElements(t, i + 1, j - 1))
    \/ /\ i < j
       /\ t[i].token_type = "LeftBrace"
       /\ t[j].token_type = "RightBrace"
       /\ (j = i + 1 \/ IsPairs(t, i + 1, j - 1))

\* value (',' value)*
IsElements(t, i, j) ==
    \/ IsValue(t, i, j)
    \/ \E k \in i..(j - 2) :
          t[k + 1].token_type = "Comma" /\ IsValue(t, i, k) /\ IsElements(t, k + 2, j)

\* pair := string ':' value
IsPair(t, i, j) ==
    /\ i + 2 <= j
    /\ t[i].token_type = "String"
    /\ t[i + 1].token_type = "Colon"
    /\ IsValue(t, i + 2, j)

\* pair (',' pair)*
IsPairs(t, i, j) ==
    \/ IsPair(t, i, j)
    \/ \E k \in i..(j - 2) :
          t[k + 1].token_type = "Comma" /\ IsPair(t, i, k) /\ IsPairs(t, k + 2, j)

\* the segments of the members of the list t[i..j], in source order; the
\* members are pairs or values
RECURSIVE Members_of(_, _, _, _)
Members_of(t, i, j, pairs) ==
    IF (IF pairs THEN IsPair(t, i, j) ELSE IsValue(t, i, j))
    THEN <<[from |-> i, to |-> j]>>
    ELSE LET k == CHOOSE k \in i..(j - 2) :
                     /\ t[k + 1].token_type = "Comma"
                     /\ IF pairs THEN IsPair(t, i, k) /\ IsPairs(t, k + 2, j)
                                 ELSE IsValue(t, i, k) /\ IsElements(t, k + 2, j)
         IN  <<[from |-> i, to |-> k]>> \o Members_of(t, k + 2, j, pairs)

\* the tree v mirrors the derivation of the value t[i..j]
RECURSIVE Mirrors(_, _, _, _)
Mirrors(v, t, i, j) ==
    IF i = j THEN v = t[i].value
    ELSE IF t[i].token_type = "LeftBracket"
    THEN LET elements == IF j = i + 1 THEN <<>> ELSE Members_of(t, i + 1, j - 1, FALSE)
         IN  /\ v.type = "Array"
             /\ Len(v.arr) = Len(elements)
             /\ \A n \in 1..Len(elements) :
                    Mirrors(v.arr[n], t, elements[n].from, elements[n].to)
    ELSE LET pairs == IF j = i + 1 THEN <<>> ELSE Members_of(t, i + 1, j - 1, TRUE)
         IN  /\ v.type = "Object"
             /\ DOMAIN v.obj = {t[pairs[n].from].value.s : n \in 1..Len(pairs)}
             /\ \A key \in DOMAIN v.obj : \E n \in 1..Len(pairs) :
                    /\ t[pairs[n].from].value.s = key
                    /\ Mirrors(v.obj[key], t, pairs[n].from + 2, pairs[n].to)

\* C19: parse_single returns Ok exactly when the lexeme sequence is a value
\* of the grammar followed by the end of the input, and the tree returned
\* mirrors the derivation: the elements of an array in source order, one
\* entry per distinct key of an object, {} the empty object, [] the empty array.
C19_Grammar ==
    given.family = "lexemes" /\ last.called =>
        /\ last.r.ok <=> IsValue(given.values, 1, Len(given.values))
        /\ last.r.ok => Mirrors(last.r.v, given.values, 1, Len(given.values))

\*  [ [ ] , { } ]  is accepted with an empty array and an empty object, in
\* source order
C19_AcceptedTree ==
    /\ given.family = "lexemes"
    /\ input = LexemesText(<<LexemeOf.lk, LexemeOf.lk, LexemeOf.rk, LexemeOf.cm,
                             LexemeOf.lb, LexemeOf.rb, LexemeOf.rk>>, 1)
    /\ last.called
    /\ last.r = Ok(JsonArray(<<JsonArray(<<>>), JsonObject(<<>>)>>))

(***************************************************************************)
(* The lexeme the grammar does not allow.                                  *)
(***************************************************************************)
\* what the grammar expects once a value is complete inside the open
\* containers; stack holds the closers of the open containers
AfterValue(stack) == IF stack = <<>> THEN "end" ELSE "separator"

Pop(stack) == SubSeq(stack, 1, Len(stack) - 1)

\* the first lexeme of t, from the n-th on, that the grammar does not
\* allow where it stands (Len(t) + 1 is the end of the input): at is its
\* index, 0 if there is none, and after_comma tells that it is the matching
\* closer standing right after a comma.  phase is what the grammar expects.
RECURSIVE Mismatch(_, _, _, _)
Mismatch(t, n, stack, phase) ==
    LET found == IF n > Len(t) THEN "Eof" ELSE t[n].token_type
        top == IF stack = <<>> THEN "" ELSE stack[Len(stack)]
        here == [at |-> n, after_comma |-> phase \in {"element", "key"} /\ found = top]
    IN  IF phase \in {"value", "first_element", "element"}
        THEN IF found \in {"String", "Number", "Boolean", "Null"}
             THEN Mismatch(t, n + 1, stack, AfterValue(stack))
             ELSE IF found = "LeftBracket"
             THEN Mismatch(t, n + 1, Append(stack, "RightBracket"), "first_element")
             ELSE IF found = "LeftBrace"
             THEN Mismatch(t, n + 1, Append(stack, "RightBrace"), "first_key")
             ELSE IF phase = "first_element" /\ found = "RightBracket"
             THEN Mismatch(t, n + 1, Pop(stack), AfterValue(Pop(stack)))
             ELSE here
        ELSE IF phase \in {"first_key", "key"}
        THEN IF found = "String" THEN Mismatch(t, n + 1, stack, "colon")
             ELSE IF phase = "first_key" /\ found = "RightBrace"
             THEN Mismatch(t, n + 1, Pop(stack), AfterValue(Pop(stack)))
             ELSE here
        ELSE IF phase = "colon"
        THEN IF found = "Colon" THEN Mismatch(t, n + 1, stack, "value") ELSE here
        ELSE IF phase = "separator"
        THEN IF found = "Comma"
             THEN Mismatch(t, n + 1, stack,
                           IF top = "RightBracket" THEN "element" ELSE "key")
             ELSE IF found = top
             THEN Mismatch(t, n + 1, Pop(stack), AfterValue(Pop(stack)))
             ELSE here
        ELSE IF found = "Eof" THEN [at |-> 0, after_comma |-> FALSE] ELSE here

\* the position where the n-th lexeme of t starts in LexemesText(t, 1)
RECURSIVE StartOf(_, _)
StartOf(t, n) ==
    IF n > Len(t) THEN Len(LexemesText(t, 1))
    ELSE IF n = 1 THEN 0
    ELSE StartOf(t, n - 1) + Len(t[n - 1].text) + 1

\* C20 as stated: wherever the parser finds a lexeme other than the one it
\* expects, it returns UnexpectedToken with the start position of the found
\* lexeme, and no value.
C20_UnexpectedTokenAlways ==
    given.family = "lexemes" /\ last.called =>
        \A m \in {Mismatch(given.values, 1, <<>>, "value")} :
            m.at > 0 =>
                /\ ~last.r.ok
                /\ last.r.err.kind = "UnexpectedToken"
                /\ last.r.err.position = StartOf(given.values, m.at)

\* C20, amended: wherever the parser finds a lexeme other than the one it
\* expects, it returns no value and an error with the start position of the
\* found lexeme: TrailingComma if the found lexeme is the matching closer
\* right after a comma, UnexpectedToken otherwise.
C20_UnexpectedToken ==
    given.family = "lexemes" /\ last.called =>
        \A m \in {Mismatch(given.values, 1, <<>>, "value")} :
            m.at > 0 =>
                /\ ~last.r.ok
                /\ last.r.err.kind =
                       (IF m.after_comma THEN "TrailingComma" ELSE "UnexpectedToken")
                /\ last.r.err.position = StartOf(given.values, m.at)

\*  { "a" 1 }  : a number found where ':' is expected, reported at 6
C20_ColonExpected ==
    /\ given.family = "lexemes"
    /\ input = LexemesText(<<LexemeOf.lb, LexemeOf.a, LexemeOf.one, LexemeOf.rb>>, 1)
    /\ last.called
    /\ last.r = Err(UnexpectedToken("Colon", "Number", 6))

(***************************************************************************)
(* Documents side by side in a stream.                                     *)
(***************************************************************************)
\* two documents with nothing, a space or a newline between them
AdjacentCases ==
    {Case(a.text \o gap \o b.text, "adjacent", <<a.value, b.value>>, Len(a.text)) :
        a \in SampleDocs, b \in SampleDocs, gap \in {<<>>, <<SPACE>>, <<NEWLINE>>}}

InitAdjacent == \E c \in AdjacentCases : Construct(c)

SpecAdjacent == InitAdjacent /\ [][StreamNext]_vars

\* C21: in stream mode two values in a row are yielded as two Ok items only
\* if a whitespace character stands between them: the character after the
\* last character of the first is whitespace.
C21_WhitespaceBetweenDocuments ==
    [][last.called /\ IsOkItem(last.r) /\ IsOkItem(last'.r)
       => /\ Consumed(lexer) < Len(input)
          /\ is_whitespace(input[Consumed(lexer) + 1])]_vars

\*  1"a"  is yielded as the number 1 and the string a
C21_TwoValuesNoGap ==
    /\ input = <<49>> \o Quoted(<<97>>)
    /\ results = <<Some(Ok(JsonNumber(f64(1, 0)))), Some(Ok(JsonString(<<97>>)))>>

(***************************************************************************)
(* Strings holding control characters and spanning lines.                  *)
(***************************************************************************)
\* a  newline  carriage return  NUL  tab  unit separator  backslash  n
ControlChars == {97, NEWLINE, 13, 0, TAB, 31, BACKSLASH, LOWER_N}

\* a closed string over the control characters
ControlCases ==
    {Case(Quoted(body), "control", <<body>>, 0) :
        body \in SeqsUpTo(ControlChars, MaxStrLen)}

InitControl == \E c \in ControlCases : Construct(c)

SpecControl == InitControl /\ [][LexerNext]_vars

\* every backslash of body[i..] starts an escape of the table
RECURSIVE EscapesValid(_, _)
EscapesValid(body, i) ==
    IF i > Len(body) THEN TRUE
    ELSE IF body[i] # BACKSLASH THEN EscapesValid(body, i + 1)
    ELSE /\ i < Len(body)
         /\ \E p \in EscapeTable : p[1] = body[i + 1]
         /\ EscapesValid(body, i + 2)

\* body[i..] with its escapes decoded
RECURSIVE Decoded(_, _)
Decoded(body, i) ==
    IF i > Len(body) THEN <<>>
    ELSE IF body[i] # BACKSLASH THEN <<body[i]>> \o Decoded(body, i + 1)
    ELSE <<(CHOOSE p \in EscapeTable : p[1] = body[i + 1])[2]>> \o Decoded(body, i + 2)

\* C22: a control character written as it is inside a string, a newline
\* included, is accepted and kept: a string whose body runs over line
\* refills decodes to the characters between its quotes, escapes decoded.
C22_ControlCharactersKept ==
    given.family = "control" /\ Len(results) >= 1 /\ EscapesValid(given.values[1], 1)
    => results[1] = Ok(StringToken(Decoded(given.values[1], 1), 0))

\* a string of three lines, read with three refills
C22_StringOverThreeLines ==
    /\ given.family = "control"
    /\ input = Quoted(<<NEWLINE, 0, NEWLINE>>)
    /\ last.called
    /\ last.r = Ok(StringToken(<<NEWLINE, 0, NEWLINE>>, 0))
    /\ lexer.reads = 3

(***************************************************************************)
(* The scanner called directly: current_char and advance.                  *)
(***************************************************************************)
\* texts of a, newline and e-acute
ScannerCases ==
    {Case(t, "scanner", <<>>, 0) : t \in SeqsUpTo({97, NEWLINE, 233}, MaxStrLen)}

InitScanner == \E c \in ScannerCases : Construct(c)

\* Lexer::current_char; results is left as it is
CurrentChar ==
    \E c \in {current_char(lexer)} :
        /\ lexer' = c.lx
        /\ last' = Called([op |-> "current_char", ch |-> c.ch])
        /\ UNCHANGED <<input, given, current_token, peeked_token, results, previous>>

\* Lexer::advance; results collects the characters it returns
Advance ==
    \E a \in {advance(lexer)} :
        /\ lexer' = a.lx
        /\ last' = Called([op |-> "advance", ch |-> a.ch])
        /\ results' = IF a.ch = NoChar THEN results ELSE Append(results, a.ch)
        /\ UNCHANGED <<input, given, current_token, peeked_token, previous>>

SpecScanner == InitScanner /\ [][CurrentChar \/ Advance]_vars

\* C23: the line buffer is refilled only when the cursor over it is
\* exhausted; over any sequence of current_char and advance calls advance
\* returns the characters of the input, each once and in order, and
\* current_char returns the character the next advance returns and leaves
\* the position counter alone.
C23_CursorReadsInput ==
    /\ [](/\ lexer.line_chars.next <= lexer.line_chars.end
             => /\ lexer.line_chars.end <= Len(lexer.current_line)
                /\ lexer.current_line =
                       SubSeq(input, lexer.reader - Len(lexer.current_line) + 1, lexer.reader)
          /\ results = SubSeq(input, 1, Len(results))
          /\ lexer.position = Len(results)
          /\ last.called /\ last.r.op = "advance" /\ last.r.ch = NoChar
             => Len(results) = Len(input)
          /\ last.called /\ last.r.op = "current_char"
             => last.r.ch = advance(lexer).ch)
    /\ [][/\ lexer'.reads > lexer.reads => line_chars_peek(lexer) = NoChar
          /\ last'.r.op = "current_char" => lexer'.position = lexer.position]_vars

\* the second line is loaded by current_char once the first is used up,
\* and the position stays at 2
C23_PeekAcrossLines ==
    /\ given.family = "scanner"
    /\ input = <<97, NEWLINE, 233>>
    /\ results = <<97, NEWLINE>>
    /\ last = Called([op |-> "current_char", ch |-> 233])
    /\ lexer.reads = 2
    /\ lexer.position = 2

(***************************************************************************)
(* A pull in stream mode whose lookahead cannot start a value.             *)
(***************************************************************************)
\* lexemes that start no value and texts the tokenizer rejects:
\*   }  ]  ,  :  @  tru  "a  1.  "\q"
BadStarts ==
    { <<RBRACE>>, <<RBRACKET>>, <<COMMA>>, <<COLON>>, <<64>>, <<116, 114, 117>>,
      <<QUOTE, 97>>, <<49, DOT>>, <<QUOTE, BACKSLASH, 113, QUOTE>> }

\* nothing or a document, then a bad start, then nothing or one more document
LookaheadCases ==
    {Case(lead \o bad \o trail, "lookahead", <<>>, Len(lead)) :
        lead \in {<<>>, <<49, SPACE>>, <<LBRACKET, 49, RBRACKET, NEWLINE>>},
        bad \in BadStarts,
        trail \in {<<>>, <<SPACE, 49>>, <<NEWLINE, 49>>}}

InitLookahead == \E c \in LookaheadCases : Construct(c)

SpecLookahead == InitLookahead /\ [][StreamNext]_vars

\* the lookahead of parser ps is a tokenizer error or one of  }  ]  ,  :
BadLookahead(ps) ==
    \E p \in {peek_token(ps).r} :
        ~p.ok \/ p.v.token_type \in {"RightBrace", "RightBracket", "Comma", "Colon"}

\* the error a pull returns on lookahead p
LookaheadError(p) ==
    IF p.ok THEN UnexpectedToken("JSON value", p.v.token_type, p.v.position) ELSE p.err

\* C24: a pull in stream mode whose lookahead is a tokenizer error or a
\* lexeme that cannot start a value returns that error and keeps the
\* lookahead; from then on a pull changes nothing in the parser and the
\* scanner, reads no input and returns the same error at the same position.
C24_LookaheadKept ==
    [][BadLookahead(parser_state) =>
          /\ last'.r = Some(Err(LookaheadError(peek_token(parser_state).r)))
          /\ peeked_token' = Some(peek_token(parser_state).r)
          /\ peeked_token.some =>
                /\ lexer' = lexer
                /\ current_token' = current_token
                /\ peeked_token' = peeked_token
          /\ stream_next([lexer |-> lexer', current_token |-> current_token',
                          peeked_token |-> peeked_token'])
                = [r |-> last'.r,
                   ps |-> [lexer |-> lexer', current_token |-> current_token',
                           peeked_token |-> peeked_token']]]_vars

\*  1 , 1  : the comma is reported three times at position 2 and the
\* document after it is never read
C24_CommaReportedAgain ==
    /\ given.family = "lookahead"
    /\ input = <<49, SPACE, COMMA, SPACE, 49>>
    /\ Len(results) = 4
    /\ \A i \in 2..4 : results[i] = Some(Err(UnexpectedToken("JSON value", "Comma", 2)))
    /\ peeked_token = Some(Ok(Token("Comma", 2)))
    /\ Consumed(lexer) = 3

(***************************************************************************)
(* The input ending inside an object or an array.                          *)
(***************************************************************************)
\* documents of the grammar and  ["é"]  cut after one of their lexemes but
\* the last, with or without whitespace behind; values is the lexemes kept
UnfinishedCases ==
    UNION {
      {Case(LexemesText(SubSeq(d, 1, k), 1) \o trail, "unfinished", SubSeq(d, 1, k), 0) :
          k \in 1..(Len(d) - 1), trail \in {<<>>, <<SPACE>>, <<NEWLINE, TAB>>}} :
      d \in GrammarDocs \cup
            {<<LexemeOf.lk, Lexeme("String", Quoted(<<233>>), JsonString(<<233>>)),
               LexemeOf.rk>>}}

InitUnfinished == \E c \in UnfinishedCases : Construct(c)

SpecUnfinished == InitUnfinished /\ [][ParseSingle]_vars

\* C25: when the input ends inside an object or an array, after { or [, a
\* key, a colon, a member or a comma, the parse fails with UnexpectedToken
\* found Eof at the number of characters of the input; no error is ever
\* UnexpectedEof or InvalidStructure.
C25_EofInsideContainer ==
    /\ given.family = "unfinished" /\ last.called =>
        /\ ~last.r.ok
        /\ last.r.err.kind = "UnexpectedToken"
        /\ last.r.err.found = "Eof"
        /\ last.r.err.position = Len(input)
    /\ last.called /\ ~last.r.ok =>
        last.r.err.kind \notin {"UnexpectedEof", "InvalidStructure"}

\*  { "a" : 1 ,   followed by a newline and a tab: a key is expected and the
\* end is found at 13
C25_EofAfterComma ==
    /\ given.family = "unfinished"
    /\ input = LexemesText(<<LexemeOf.lb, LexemeOf.a, LexemeOf.cl, LexemeOf.one,
                             LexemeOf.cm>>, 1) \o <<NEWLINE, TAB>>
    /\ last.called
    /\ last.r = Err(UnexpectedToken("String", "Eof", 13))

(***************************************************************************)
(* Pulling on after the end of the stream.                                 *)
(***************************************************************************)
\* a consumer that calls next again after it returned None
PullAfterEnd ==
    /\ last.called /\ last.r = None
    /\ \E n \in {stream_next(parser_state)} :
        /\ lexer' = n.ps.lexer
        /\ current_token' = n.ps.current_token
        /\ peeked_token' = n.ps.peeked_token
        /\ last' = Called(n.r)
        /\ results' = record(n.r)
    /\ UNCHANGED <<input, given, previous>>

SpecPullOn == InitStream /\ [][StreamNext \/ PullAfterEnd]_vars

\* C26: the end of the stream is sticky: after a pull returned None every
\* later pull returns None, and once the scanner has set finished it never
\* calls read_line on the source again.
C26_EndIsSticky ==
    [][/\ last.called /\ last.r = None => last'.r = None
       /\ lexer.finished => lexer'.finished /\ lexer'.reads = lexer.reads]_vars

\* None three times in a row after two documents, with no further read
C26_NoneThreeTimes ==
    /\ Len(results) = 5
    /\ IsOkItem(results[1]) /\ IsOkItem(results[2])
    /\ \A i \in 3..5 : results[i] = None
    /\ lexer.finished
    /\ peeked_token = Some(Ok(Token("Eof", Len(input))))

====
